---- MODULE Spec2Model ----
(***************************************************************************)
(* Job lifecycle messaging of omotes-sdk-python: the SDK client            *)
(* (OmotesInterface), the orchestrator side (OrchestratorInterface), the   *)
(* queue names, and the broker both talk through.                          *)
(*                                                                         *)
(* The broker (omotes_sdk.internal.common.broker_interface) is modelled    *)
(* from its documented capability: publish, subscribe, unsubscribe and     *)
(* "receive the next message, then stop".  A queue exists while it has a   *)
(* subscription; a message published to a queue nobody subscribes to is    *)
(* not kept, and removing a subscription deletes the queue.                *)
(*                                                                         *)
(* Three threads of control take steps.  The application thread runs the   *)
(* client's methods; a method that makes several broker calls              *)
(* (submit_job, connect_to_submitted_job, disconnect_from_submitted_job)   *)
(* takes one step per broker call.  The broker's consumer dispatches one   *)
(* message at a time; callback_on_finished_wrapped takes one step for the  *)
(* user's callback and one per broker call of the disconnect that follows. *)
(* The orchestrator's connect_to_job_submissions takes one step per        *)
(* workflow type it subscribes to.  Steps of different threads interleave. *)
(***************************************************************************)
EXTENDS Integers, Sequences, FiniteSets, TLC

\* ------------------------------------------------------------- bounds
\* Number of jobs the client submits.
MaxJobs == 1
\* Number of updates/results the orchestrator publishes in one behaviour.
MaxOrchSends == 2
\* Number of messages published by a publisher that is not this SDK.
MaxForeign == 1
\* Number of connect_to_submitted_job calls the application makes.
MaxConnects == 1

\* Identifiers uuid.uuid4() can return; only the first MaxJobs are drawn.
UUIDs == <<"u1", "u2", "u3", "u4">>
JobIds == {UUIDs[i] : i \in 1..MaxJobs}
\* The uuid field of a message written by a foreign publisher: a well-formed
\* uuid of a job this client never made, or text that is no uuid at all.
ForeignUuid == "f1"
MalformedUuid == "not-a-uuid"
IsUuid(s) == s \in {UUIDs[i] : i \in 1..Len(UUIDs)} \cup {ForeignUuid}
WorkflowNames == {"wfA", "wfB"}

\* ------------------------------------------------------------- data
\* workflow_type.py: WorkflowType (compared and hashed by workflow_type_name).
WorkflowType(name) ==
    [workflow_type_name |-> name,
     workflow_type_description_name |-> "description of " \o name,
     workflow_parameters |-> [kind |-> "NoneType", n |-> 0, s |-> ""]]

\* omotes_sdk.job.Job as the callers construct it: Job(id, workflow_type).
Job(id, workflow_type) == [id |-> id, workflow_type |-> workflow_type]

NoJobId == "none"

\* workflow_type.py: WorkflowTypeManager.__init__, a dict keyed by name in
\* which a later workflow of the same name replaces an earlier one.
RECURSIVE LastWithName(_, _, _)
LastWithName(possible_workflows, name, i) ==
    IF possible_workflows[i].workflow_type_name = name
    THEN possible_workflows[i]
    ELSE LastWithName(possible_workflows, name, i - 1)

\* The keys of the dict WorkflowTypeManager.__init__ builds, in the order a
\* dict keeps them: each name where it was first inserted.
RECURSIVE dict_keys(_, _, _)
dict_keys(possible_workflows, i, keys) ==
    IF i > Len(possible_workflows) THEN keys
    ELSE LET name == possible_workflows[i].workflow_type_name
         IN dict_keys(possible_workflows, i + 1,
                IF \E k \in 1..Len(keys) : keys[k] = name THEN keys
                ELSE Append(keys, name))

\* self._workflows.values(): the workflow kept for each key, in key order.
dict_values(possible_workflows) ==
    LET keys == dict_keys(possible_workflows, 1, <<>>)
    IN [k \in 1..Len(keys) |->
           LastWithName(possible_workflows, keys[k], Len(possible_workflows))]

\* WorkflowTypeManager._workflows, held as its values in key order (each
\* value carries its key, workflow_type_name).
WorkflowTypeManager(possible_workflows) == dict_values(possible_workflows)

\* WorkflowTypeManager.get_all_workflows: list(self._workflows.values()).
get_all_workflows(workflows) == workflows

\* ------------------------------------------------------------- python values
\* A Python value: its type and its content.  A float is held as twice its
\* value (n = 3 is 1.5) or, when s is not empty, as the infinity or NaN s
\* names; a datetime is held as twice its POSIX timestamp in seconds, a
\* timedelta as its length in microseconds, a bool as 0 or 1.
PyValue(kind, n, s) == [kind |-> kind, n |-> n, s |-> s]
None == PyValue("NoneType", 0, "")
PyStr(s) == PyValue("str", 0, s)
PyBool(b) == PyValue("bool", IF b THEN 1 ELSE 0, "")
PyInt(n) == PyValue("int", n, "")
PyFloat(twice) == PyValue("float", twice, "")
PyInf == PyValue("float", 0, "inf")
PyNaN == PyValue("float", 0, "nan")
PyDatetime(twice) == PyValue("datetime", twice, "")
PyList == PyValue("list", 0, "")
PyListOf(items) == [kind |-> "list", n |-> 0, s |-> "", items |-> items]
PyTimedelta(microseconds) == PyValue("timedelta", microseconds, "")

\* Variant of isinstance that takes only the class itself: type(value) is cls.
isinstance_exact_type(value, cls) == value.kind = cls

\* isinstance(value, cls); bool is a subclass of int.
isinstance(value, cls) ==
    \/ value.kind = cls
    \/ cls = "int" /\ value.kind = "bool"

\* bool(value) of a value used as a condition: None, zero, the empty string
\* and the zero timedelta are false.
Truthy(value) ==
    CASE value.kind = "NoneType" -> FALSE
      [] value.kind \in {"bool", "int", "timedelta"} -> value.n # 0 \/ value.s # ""
      [] value.kind = "float" -> value.n # 0 \/ value.s # ""
      [] value.kind = "str" -> value.s # ""
      [] OTHER -> TRUE

\* round(a / b) for integers a and b > 0, as Python rounds a float: to the
\* nearest integer, a tie to the even one.
RoundHalfEven(a, b) ==
    LET q == a \div b
        r == a % b
    IN IF 2 * r < b THEN q
       ELSE IF 2 * r > b THEN q + 1
       ELSE IF q % 2 = 0 THEN q ELSE q + 1

\* An int too large for the 53 bits of a float's mantissa: 2**53 + k, held as
\* its distance k from 2**53 with s naming the base.  A float from 2**53 up to
\* 2**54 is held the same way (n twice the distance); only even distances
\* are floats there.
PyBigInt(k) == PyValue("int", k, "2**53")
PyBigFloat(twice) == PyValue("float", twice, "2**53")

\* float(value) of an int or a float: the nearest float, a tie to the one
\* with the even mantissa; exact for an int below 2**53.
float(value) ==
    IF value.kind = "float" THEN value
    ELSE IF value.s = "2**53"
         THEN PyBigFloat(2 * (2 * RoundHalfEven(value.n, 2)))
    ELSE PyFloat(2 * value.n)

\* a == b of two Python values: numbers (bool, int, float) compare by value,
\* a NaN equals nothing, values of other types compare within their type.
Numbers == {"bool", "int", "float"}
eq(a, b) ==
    IF a.kind \in Numbers /\ b.kind \in Numbers
    THEN /\ a.s # "nan"
         /\ b.s # "nan"
         /\ a.s = b.s
         /\ (IF a.kind = "float" THEN a.n ELSE 2 * a.n)
                = (IF b.kind = "float" THEN b.n ELSE 2 * b.n)
    ELSE a = b

\* ------------------------------------------------------------- queue names
job_submission_queue_name(workflow_type) ==
    "job_submissions." \o workflow_type.workflow_type_name

job_results_queue_name(job) == "jobs." \o job.id \o ".result"

\* Variant of job_progress_queue_name that leaves the job's id out.
job_progress_queue_name_without_id(job) == "jobs." \o "progress"

job_progress_queue_name(job) == "jobs." \o job.id \o ".progress"

\* Variant of job_status_queue_name that gives the name of the progress queue.
job_status_queue_name_as_progress(job) == "jobs." \o job.id \o ".progress"

job_status_queue_name(job) == "jobs." \o job.id \o ".status"

job_cancel_queue_name == "job_cancellations"

\* job_cancel_queue_name is declared without parameters ...
job_cancel_queue_name_params == 0
\* ... and cancel_job calls it with one positional argument, the job.
cancel_job_queue_name_args == 1

\* ------------------------------------------------------------- messages
\* The fields submit_job gives a JobSubmission; a field it does not give is
\* not in the message.
JobSubmission(uuid, timeout_ms, workflow_type_name, esdl) ==
    [type |-> "JobSubmission", uuid |-> uuid, timeout_ms |-> timeout_ms,
     workflow_type |-> workflow_type_name, esdl |-> esdl]

JobCancel(uuid) == [type |-> "JobCancel", uuid |-> uuid, workflow_type |-> ""]

JobUpdate(type, job) == [type |-> type, uuid |-> job.id, workflow_type |-> ""]

VARIABLES
    sdk_subs,      \* the client's subscriptions at the broker
    orch_subs,     \* the orchestrator's subscriptions at the broker
    queues,        \* queue name -> messages waiting for delivery, oldest first
    registry,      \* the orchestrator's WorkflowTypeManager._workflows
    orch_connected,\* which connect_to_* calls the orchestrator has made
    used_ids,      \* ids uuid4() has returned to submit_job
    handles,       \* Job handles submit_job has returned
    sdk_pc,        \* broker calls made by the call the application's thread is in
    sdk_local,     \* locals of the call the application's thread is in
    sdk_loop,      \* the client's consumer loop: the handler it is in, and where
    orch_pc,       \* iterations done by the connect_to_job_submissions in progress
    connections,   \* handler objects made, and those whose callback_on_finished ran
    conn,          \* job id -> where the last connect or disconnect of it stands
    cb_count,      \* job id -> times each user callback ran
    new_jobs,      \* the calls of callback_on_new_job, in order
    cancelled,     \* the calls of callback_on_job_cancel, in order
    error_log,     \* number of logger.error records of the orchestrator
    orch_sends,    \* number of send_job_* calls so far
    foreign_sends, \* number of foreign publishes so far
    published,     \* ids of the jobs whose JobSubmission the client has published
    last,          \* the operation that took the last step and what it did
    worker,        \* the worker's task execution: position, messages published, log
    pure           \* the last call of a function of workflow_type.py and its outcome

vars == <<sdk_subs, orch_subs, queues, registry, orch_connected, used_ids,
          handles, sdk_pc, sdk_local, sdk_loop, orch_pc, connections, conn,
          cb_count, new_jobs, cancelled, error_log, orch_sends, foreign_sends,
          published, last, worker, pure>>

\* ------------------------------------------------------------- broker
AllJobIds == JobIds \cup {ForeignUuid}

QueueNames ==
    {job_submission_queue_name(WorkflowType(w)) : w \in WorkflowNames}
    \cup {job_results_queue_name(Job(j, WorkflowType("wfA"))) : j \in AllJobIds}
    \cup {job_progress_queue_name(Job(j, WorkflowType("wfA"))) : j \in AllJobIds}
    \cup {job_status_queue_name(Job(j, WorkflowType("wfA"))) : j \in AllJobIds}
    \cup {job_cancel_queue_name}

Subscribed(s_subs, o_subs, queue_name) ==
    \/ \E s \in s_subs : s.queue = queue_name
    \/ \E s \in o_subs : s.queue = queue_name

\* publish: the message joins the queue when the queue exists.
send_message_to(qs, queue_name, message) ==
    IF queue_name \in DOMAIN qs /\ Subscribed(sdk_subs, orch_subs, queue_name)
    THEN [qs EXCEPT ![queue_name] = Append(@, message)]
    ELSE qs

\* A queue that lost its last subscription is deleted with what it holds.
DeleteUnsubscribed(qs, s_subs, o_subs) ==
    [q \in DOMAIN qs |-> IF Subscribed(s_subs, o_subs, q) THEN qs[q] ELSE <<>>]

\* receiveOnce / subscribe: one subscription record per call.
receive_next_message(subs, queue_name, method, handler) ==
    subs \cup {[queue |-> queue_name, once |-> TRUE,
                method |-> method, handler |-> handler]}

add_queue_subscription(subs, queue_name, method, handler) ==
    subs \cup {[queue |-> queue_name, once |-> FALSE,
                method |-> method, handler |-> handler]}

\* unsubscribe: removing a subscription that is not there changes nothing.
remove_queue_next_message_subscription(subs, queue_name) ==
    {s \in subs : ~(s.queue = queue_name /\ s.once)}

remove_queue_subscription(subs, queue_name) ==
    {s \in subs : ~(s.queue = queue_name /\ ~s.once)}

\* ------------------------------------------------------------- records
\* The worker before Celery hands it a task.
NoTask == [pc |-> "idle"]

\* No function of workflow_type.py has been called.
NoCall == [op |-> "none"]

NoArgs == [callback_on_progress_update |-> FALSE,
           callback_on_status_update |-> FALSE,
           auto_disconnect_on_result |-> FALSE]

Args(on_progress, on_status, auto) ==
    [callback_on_progress_update |-> on_progress,
     callback_on_status_update |-> on_status,
     auto_disconnect_on_result |-> auto]

\* The arguments of a submit_job call that the claims read back after it
\* returned: the callbacks, auto_disconnect_on_result and job_timeout.
SubmitArgs(local) ==
    [callback_on_progress_update |-> local.args.callback_on_progress_update,
     callback_on_status_update |-> local.args.callback_on_status_update,
     auto_disconnect_on_result |-> local.args.auto_disconnect_on_result,
     job_timeout |-> local.job_timeout]

Last(op, job_id, raised, args, sent, trace, seen) ==
    [op |-> op, job |-> job_id, raised |-> raised, args |-> args,
     sent |-> sent, trace |-> trace, seen |-> seen]

NoCount == [finished |-> 0, progress |-> 0, status |-> 0]

\* No handler object has been made yet.
NoConnections == [made |-> 0, reconnects |-> 0, finished |-> <<>>]

\* The esdl, job_config and job_timeout of a submit_job call whose claim is
\* about something else.
SomeEsdl == "<esdl/>"
NoJobConfig == <<>>

\* omotes_interface.py: JobSubmissionCallbackHandler (the dataclass fields;
\* callback_on_finished is always supplied).  Every connect makes a new
\* handler object: `object` tells the handlers of two calls with the same
\* arguments apart.
SdkCallbackHandler(job, on_progress, on_status, auto_handler, object) ==
    [job |-> job,
     callback_on_progress_update |-> on_progress,
     callback_on_status_update |-> on_status,
     auto_disconnect_on_result_handler |-> auto_handler,
     object |-> object]

NoHandler == SdkCallbackHandler(Job(NoJobId, WorkflowType("wfA")), FALSE, FALSE, FALSE, 0)

\* The locals of no call: the application's thread is in no method of the
\* client.
NoLocal == [op |-> "none", job |-> Job(NoJobId, WorkflowType("wfA")), args |-> NoArgs,
            esdl |-> "", job_config |-> NoJobConfig, job_timeout |-> None,
            callback_handler |-> NoHandler, sent |-> <<>>, undisturbed |-> TRUE]

\* The consumer loop of the client's broker interface is waiting for a
\* message: it is in no handler.
LoopIdle == [pc |-> 0, callback_handler |-> NoHandler, callback_raises |-> FALSE,
             trace |-> <<>>, seen |-> {}, undisturbed |-> TRUE]

\* ------------------------------------------------------------- SDK client
\* One call of the broker interface (or of the application's
\* callback_on_finished) as a statement of the client: the method called and
\* which of the job's queues it is called for.
Statement(call, queue) == [call |-> call, queue |-> queue]

Subscribing == {"receive_next_message", "add_queue_subscription"}
Removing == {"remove_queue_next_message_subscription", "remove_queue_subscription"}

\* Variants of disconnect_from_submitted_job that forget one removal.
disconnect_from_submitted_job_keeps_status ==
    <<Statement("remove_queue_next_message_subscription", "result"),
      Statement("remove_queue_subscription", "progress")>>

disconnect_from_submitted_job_keeps_progress ==
    <<Statement("remove_queue_next_message_subscription", "result"),
      Statement("remove_queue_subscription", "status")>>

\* OmotesInterface.disconnect_from_submitted_job: its three broker calls in
\* program order.
disconnect_from_submitted_job ==
    <<Statement("remove_queue_next_message_subscription", "result"),
      Statement("remove_queue_subscription", "progress"),
      Statement("remove_queue_subscription", "status")>>

\* Variant of connect_to_submitted_job that never subscribes to the status queue.
connect_to_submitted_job_no_status(callback_on_progress_update, callback_on_status_update) ==
    <<Statement("receive_next_message", "result")>>
    \o (IF callback_on_progress_update
        THEN <<Statement("add_queue_subscription", "progress")>> ELSE <<>>)

\* Variant of connect_to_submitted_job that listens for results with an
\* ordinary subscription instead of a "next message" one.
connect_to_submitted_job_result_subscription(callback_on_progress_update, callback_on_status_update) ==
    <<Statement("add_queue_subscription", "result")>>
    \o (IF callback_on_progress_update
        THEN <<Statement("add_queue_subscription", "progress")>> ELSE <<>>)
    \o (IF callback_on_status_update
        THEN <<Statement("add_queue_subscription", "status")>> ELSE <<>>)

\* Variant of connect_to_submitted_job that submits the job again.
connect_to_submitted_job_sends_submission(callback_on_progress_update, callback_on_status_update) ==
    <<Statement("receive_next_message", "result")>>
    \o (IF callback_on_progress_update
        THEN <<Statement("add_queue_subscription", "progress")>> ELSE <<>>)
    \o (IF callback_on_status_update
        THEN <<Statement("add_queue_subscription", "status")>> ELSE <<>>)
    \o <<Statement("send_message_to", "submission")>>

\* OmotesInterface.connect_to_submitted_job: its broker calls in program
\* order, after the handler object is made.  A callback argument is TRUE when
\* a callable was passed, FALSE when None was.
connect_to_submitted_job(callback_on_progress_update, callback_on_status_update) ==
    <<Statement("receive_next_message", "result")>>
    \o (IF callback_on_progress_update
        THEN <<Statement("add_queue_subscription", "progress")>> ELSE <<>>)
    \o (IF callback_on_status_update
        THEN <<Statement("add_queue_subscription", "status")>> ELSE <<>>)

\* Variant of submit_job that publishes before it subscribes.
submit_job_steps_publish_first(callback_on_progress_update, callback_on_status_update) ==
    <<Statement("send_message_to", "submission")>>
    \o connect_to_submitted_job(callback_on_progress_update, callback_on_status_update)

\* OmotesInterface.submit_job after the Job is made: the broker calls of
\* connect_to_submitted_job, then the publish of the JobSubmission.
submit_job_steps(callback_on_progress_update, callback_on_status_update) ==
    connect_to_submitted_job(callback_on_progress_update, callback_on_status_update)
    \o <<Statement("send_message_to", "submission")>>

\* Variant of callback_on_finished_wrapped that disconnects before it calls
\* callback_on_finished.
callback_on_finished_wrapped_disconnect_first(handler, callback_raises) ==
    (IF handler.auto_disconnect_on_result_handler
     THEN disconnect_from_submitted_job ELSE <<>>)
    \o <<Statement("callback_on_finished", "result")>>

\* Variant of callback_on_finished_wrapped that disconnects in a finally
\* clause, so also when callback_on_finished raises.
callback_on_finished_wrapped_finally(handler, callback_raises) ==
    <<Statement("callback_on_finished", "result")>>
    \o (IF handler.auto_disconnect_on_result_handler
        THEN disconnect_from_submitted_job ELSE <<>>)

\* Variant of callback_on_finished_wrapped that disconnects whether or not
\* the handler holds an auto_disconnect_on_result_handler.
callback_on_finished_wrapped_always_disconnects(handler, callback_raises) ==
    <<Statement("callback_on_finished", "result")>>
    \o (IF ~callback_raises THEN disconnect_from_submitted_job ELSE <<>>)

\* JobSubmissionCallbackHandler.callback_on_finished_wrapped: the statements
\* it runs, in program order.  callback_raises: the application's
\* callback_on_finished raises, and the exception leaves the method.  The
\* auto_disconnect_on_result_handler is disconnect_from_submitted_job.
callback_on_finished_wrapped(handler, callback_raises) ==
    <<Statement("callback_on_finished", "result")>>
    \o (IF ~callback_raises /\ handler.auto_disconnect_on_result_handler
        THEN disconnect_from_submitted_job ELSE <<>>)

\* callback_on_progress_update_wrapped / callback_on_status_update_wrapped:
\* whether the application's callback runs.
callback_on_progress_update_wrapped(handler) == handler.callback_on_progress_update

callback_on_status_update_wrapped(handler) == handler.callback_on_status_update

\* The name of the queue a statement is about.
StatementQueue(statement, job) ==
    CASE statement.queue = "result" -> job_results_queue_name(job)
      [] statement.queue = "progress" -> job_progress_queue_name(job)
      [] statement.queue = "status" -> job_status_queue_name(job)
      [] statement.queue = "submission" -> job_submission_queue_name(job.workflow_type)

\* The method of the handler connect_to_submitted_job binds to a queue.
StatementMethod(statement) ==
    CASE statement.queue = "result" -> "callback_on_finished_wrapped"
      [] statement.queue = "progress" -> "callback_on_progress_update_wrapped"
      [] statement.queue = "status" -> "callback_on_status_update_wrapped"

\* One broker call of the client, made on the subscriptions subs and the
\* queues qs: the subscriptions and the queues after it.
BrokerCall(subs, qs, statement, job, callback_handler, message) ==
    LET queue_name == StatementQueue(statement, job)
    IN CASE statement.call = "receive_next_message" ->
              [subs |-> receive_next_message(subs, queue_name,
                            StatementMethod(statement), callback_handler),
               queues |-> qs]
         [] statement.call = "add_queue_subscription" ->
              [subs |-> add_queue_subscription(subs, queue_name,
                            StatementMethod(statement), callback_handler),
               queues |-> qs]
         [] statement.call = "remove_queue_next_message_subscription" ->
              LET left == remove_queue_next_message_subscription(subs, queue_name)
              IN [subs |-> left, queues |-> DeleteUnsubscribed(qs, left, orch_subs)]
         [] statement.call = "remove_queue_subscription" ->
              LET left == remove_queue_subscription(subs, queue_name)
              IN [subs |-> left, queues |-> DeleteUnsubscribed(qs, left, orch_subs)]
         [] statement.call = "send_message_to" ->
              [subs |-> subs, queues |-> send_message_to(qs, queue_name, message)]
         [] OTHER -> [subs |-> subs, queues |-> qs]

\* Which of a job's three queues the client is subscribed to.
SubscribedKinds(subs, job) ==
    {k \in {"result", "progress", "status"} :
        \E s \in subs : s.queue = StatementQueue(Statement("", k), job)}

\* Statement n of a sequence is its first (last) call of one of `calls`.
IsFirst(statements, n, calls) ==
    /\ statements[n].call \in calls
    /\ \A i \in 1..(n - 1) : statements[i].call \notin calls

IsLast(statements, n, calls) ==
    /\ statements[n].call \in calls
    /\ \A i \in (n + 1)..Len(statements) : statements[i].call \notin calls

\* The consumer loop has begun the removals of a disconnect for this job and
\* has not ended them.
LoopRemoving(loop, job) ==
    /\ loop.pc > 0
    /\ loop.callback_handler.job.id = job.id
    /\ \E i \in 1..Len(loop.trace) : loop.trace[i] = "disconnect_from_submitted_job"

\* Where a job stands after a statement of a thread of the client.  A connect
\* whose subscriptions were all made with no removal by the other thread in
\* between leaves it "connected", a disconnect whose removals were all made
\* with no subscription by the other thread in between "disconnected";
\* otherwise it is between the two.
ConnAfter(statements, n, undisturbed, before) ==
    IF statements[n].call \in Subscribing
    THEN IF IsLast(statements, n, Subscribing) /\ undisturbed
         THEN "connected" ELSE "connecting"
    ELSE IF statements[n].call \in Removing
    THEN IF IsLast(statements, n, Removing) /\ undisturbed
         THEN "disconnected" ELSE "disconnecting"
    ELSE before

\* The binary exponent of num / den > 0: the a with 2^a <= num / den < 2^(a+1).
RECURSIVE FloatExponent(_, _)
FloatExponent(num, den) ==
    IF num \div 2 >= den THEN FloatExponent(num, 2 * den) + 1
    ELSE IF num < den THEN FloatExponent(2 * num, den) - 1
    ELSE 0

\* (x * 2^e) % m.
RECURSIVE Pow2Mod(_, _, _)
Pow2Mod(x, e, m) ==
    IF e = 0 THEN x % m
    ELSE IF e >= 10 THEN (1024 * Pow2Mod(x, e - 10, m)) % m
    ELSE (2 * Pow2Mod(x, e - 1, m)) % m

\* timedelta.total_seconds() of a timedelta of us > 0 microseconds is the
\* float nearest to us / 10**6, m / 2^e with a mantissa m of 53 bits (a tie
\* to the even m).  This is its error in units of 1 / (10**6 * 2^e):
\* m * 10**6 - us * 2^e.
total_seconds_error(us) ==
    LET e == 52 - FloatExponent(us, 1000000)
        twice == Pow2Mod(us, e, 2000000)
        r == twice % 1000000
        odd == twice >= 1000000
    IN IF r < 500000 THEN 0 - r
       ELSE IF r > 500000 THEN 1000000 - r
       ELSE IF odd THEN 500000 ELSE 0 - 500000

\* The float total_seconds() * 1000 of a timedelta of us > 0 microseconds
\* with us / 1000 halfway between two integers, set against us / 1000: -1
\* when it is below, 0 when it is that value, 1 when it is above.  The
\* product of the float total_seconds() and 1000 is rounded to a mantissa
\* of 53 bits again.
total_seconds_times_1000_side(us) ==
    LET a == FloatExponent(us, 1000000)
        b == FloatExponent(us, 1000)
        d == total_seconds_error(us)
        power_of_two == IF b < 0 THEN us * 2^(0 - b) = 1000 ELSE us = 1000 * 2^b
        product_exponent == IF power_of_two /\ d < 0 THEN b - 1 ELSE b
        half == 500 * 2^(product_exponent - a)
    IN IF d > half THEN 1 ELSE IF d < 0 - half THEN 0 - 1 ELSE 0

\* round(total_seconds() * 1000) of a timedelta of us > 0 microseconds.
\* Away from a tie the two float roundings (relative error below 2^-51) do
\* not move the product across the half, and round gives the integer nearest
\* to us / 1000; at a tie the side the float product fell on decides, and
\* round takes an exact tie to the even integer.
round_of_positive(us) ==
    IF us % 1000 # 500 THEN RoundHalfEven(us, 1000)
    ELSE LET side == total_seconds_times_1000_side(us)
         IN IF side = 0 THEN RoundHalfEven(us, 1000)
            ELSE IF side > 0 THEN us \div 1000 + 1 ELSE us \div 1000

\* round(job_timeout.total_seconds() * 1000) of a timedelta of us
\* microseconds, us # 0; division, product and round of a negative length
\* mirror those of the positive one.
round_total_seconds_times_1000(us) ==
    IF us < 0 THEN 0 - round_of_positive(0 - us) ELSE round_of_positive(us)

\* Variant of timeout_ms that tests "job_timeout is not None".
timeout_ms_unless_none(job_timeout) ==
    IF job_timeout # None THEN PyInt(round_total_seconds_times_1000(job_timeout.n))
    ELSE None

\* submit_job: timeout_ms = round(job_timeout.total_seconds() * 1000) if
\* job_timeout else None.
timeout_ms(job_timeout) ==
    IF Truthy(job_timeout) THEN PyInt(round_total_seconds_times_1000(job_timeout.n))
    ELSE None

\* Variant of the JobSubmission of submit_job that leaves workflow_type unset.
job_submission_msg_without_workflow_type(local) ==
    JobSubmission(local.job.id, timeout_ms(local.job_timeout), "", local.esdl)

\* submit_job: the JobSubmission it builds from its arguments.
job_submission_msg(local) ==
    JobSubmission(local.job.id, timeout_ms(local.job_timeout),
                  local.job.workflow_type.workflow_type_name, local.esdl)

\* Variant of uuid.uuid4() that gives the same identifier every time.
uuid4_repeating(used) == UUIDs[1]

\* uuid.uuid4(): an identifier no earlier call gave (the next unused one).
uuid4(used) == UUIDs[Cardinality(used) + 1]

\* The broker calls of the method the application's thread is in, in program
\* order.
Statements(local) ==
    CASE local.op = "submit_job" ->
            submit_job_steps(local.args.callback_on_progress_update,
                             local.args.callback_on_status_update)
      [] local.op = "connect_to_submitted_job" ->
            connect_to_submitted_job(local.args.callback_on_progress_update,
                                     local.args.callback_on_status_update)
      [] local.op = "disconnect_from_submitted_job" -> disconnect_from_submitted_job

\* The application's thread makes broker call n of the method it is in (whose
\* locals are `local`); the method returns with its last broker call.  The
\* consumer loop runs beside it: a subscription made while the loop is
\* removing the job's subscriptions disturbs the loop's disconnect.
SdkStatement(local, n) ==
    LET statements == Statements(local)
        statement == statements[n]
        job == local.job
        message == job_submission_msg(local)
        r == BrokerCall(sdk_subs, queues, statement, job, local.callback_handler, message)
        publishes == statement.call = "send_message_to"
        sent == IF publishes
                THEN Append(local.sent, [queue |-> StatementQueue(statement, job),
                                         message |-> message])
                ELSE local.sent
        returns == n = Len(statements)
        disturbs == statement.call \in Subscribing /\ LoopRemoving(sdk_loop, job)
    IN /\ sdk_subs' = r.subs
       /\ queues' = r.queues
       /\ published' = IF publishes THEN published \cup {job.id} ELSE published
       /\ conn' = [conn EXCEPT ![job.id] =
                      ConnAfter(statements, n, local.undisturbed, @)]
       /\ sdk_loop' = IF disturbs THEN [sdk_loop EXCEPT !.undisturbed = FALSE]
                      ELSE sdk_loop
       /\ handles' = IF returns /\ local.op = "submit_job"
                     THEN handles \cup {job} ELSE handles
       /\ sdk_pc' = IF returns THEN 0 ELSE n
       /\ sdk_local' = IF returns THEN NoLocal ELSE [local EXCEPT !.sent = sent]
       /\ last' = Last(IF returns THEN local.op ELSE local.op \o "_statement",
                       job.id, "none",
                       IF local.op = "submit_job" THEN SubmitArgs(local) ELSE local.args,
                       sent, <<>>, {})

\* submit_job up to and including its first broker call, for a client that
\* submits at most `limit` jobs: the Job gets a fresh uuid4 and a new handler
\* object is made for it.
submit_job_begin_within(limit, esdl, job_config, workflow_name, job_timeout, on_progress, on_status, auto) ==
    /\ sdk_pc = 0
    /\ Cardinality(used_ids) < limit
    /\ LET id == uuid4(used_ids)
           job == Job(id, WorkflowType(workflow_name))
           local == [op |-> "submit_job", job |-> job,
                     args |-> Args(on_progress, on_status, auto),
                     esdl |-> esdl, job_config |-> job_config,
                     job_timeout |-> job_timeout,
                     callback_handler |-> SdkCallbackHandler(job, on_progress,
                                             on_status, auto, connections.made + 1),
                     sent |-> <<>>, undisturbed |-> TRUE]
       IN /\ used_ids' = used_ids \cup {id}
          /\ SdkStatement(local, 1)
    /\ connections' = [connections EXCEPT !.made = @ + 1]
    /\ UNCHANGED <<worker, pure, orch_subs, registry, orch_connected, orch_pc, cb_count,
                   new_jobs, cancelled, error_log, orch_sends, foreign_sends>>

submit_job_begin(esdl, job_config, workflow_name, job_timeout, on_progress, on_status, auto) ==
    submit_job_begin_within(MaxJobs, esdl, job_config, workflow_name, job_timeout,
                            on_progress, on_status, auto)

\* A call of connect_to_submitted_job for a handle the application kept, up
\* to and including its first broker call.  The job may be connected already.
Call_connect_to_submitted_job(job, on_progress, on_status, auto) ==
    /\ sdk_pc = 0
    /\ connections.reconnects < MaxConnects
    /\ LET local == [NoLocal EXCEPT
                        !.op = "connect_to_submitted_job", !.job = job,
                        !.args = Args(on_progress, on_status, auto),
                        !.callback_handler = SdkCallbackHandler(job, on_progress,
                                                 on_status, auto, connections.made + 1)]
       IN SdkStatement(local, 1)
    /\ connections' = [connections EXCEPT !.made = @ + 1, !.reconnects = @ + 1]
    /\ UNCHANGED <<worker, pure, orch_subs, registry, orch_connected, orch_pc, used_ids,
                   cb_count, new_jobs, cancelled, error_log, orch_sends, foreign_sends>>

\* A call of disconnect_from_submitted_job, up to and including its first
\* broker call.
Call_disconnect_from_submitted_job(job) ==
    /\ sdk_pc = 0
    /\ LET local == [NoLocal EXCEPT !.op = "disconnect_from_submitted_job", !.job = job]
       IN SdkStatement(local, 1)
    /\ UNCHANGED <<worker, pure, orch_subs, registry, orch_connected, orch_pc, used_ids,
                   connections, cb_count, new_jobs, cancelled, error_log, orch_sends,
                   foreign_sends>>

\* The next broker call of the method the application's thread is in.
Sdk_next_statement ==
    /\ sdk_pc > 0
    /\ SdkStatement(sdk_local, sdk_pc + 1)
    /\ UNCHANGED <<worker, pure, orch_subs, registry, orch_connected, orch_pc, used_ids,
                   connections, cb_count, new_jobs, cancelled, error_log, orch_sends,
                   foreign_sends>>

\* OmotesInterface.cancel_job: the message is built, then the queue name is
\* asked for with an argument the function does not take, which raises
\* TypeError before anything is sent.
cancel_job(qs, job) ==
    LET cancel_msg == JobCancel(job.id)
    IN IF cancel_job_queue_name_args # job_cancel_queue_name_params
       THEN [queues |-> qs, raised |-> "TypeError", sent |-> <<>>]
       ELSE [queues |-> send_message_to(qs, job_cancel_queue_name, cancel_msg),
             raised |-> "none",
             sent |-> <<[queue |-> job_cancel_queue_name, message |-> cancel_msg]>>]

\* Variant of cancel_job that drops the job's subscriptions.
cancel_job_subscriptions_disconnecting(subs, job) ==
    {s \in subs : s.handler.job.id # job.id}

\* OmotesInterface.cancel_job: the client's subscriptions after the call.  It
\* calls no subscription method of broker_if.
cancel_job_subscriptions(subs, job) == subs

Call_cancel_job(job) ==
    /\ sdk_pc = 0
    /\ LET r == cancel_job(queues, job)
       IN /\ queues' = r.queues
          /\ last' = Last("cancel_job", job.id, r.raised, NoArgs, r.sent, <<>>, {})
    /\ sdk_subs' = cancel_job_subscriptions(sdk_subs, job)
    /\ UNCHANGED <<worker, pure, orch_subs, registry, orch_connected, orch_pc, used_ids,
                   handles, sdk_pc, sdk_local, sdk_loop, connections, published, conn,
                   cb_count, new_jobs, cancelled, error_log, orch_sends, foreign_sends>>

\* The broker hands the oldest message of a queue to its subscription.  A
\* "next message" subscription ends with the message it receives.
AfterDelivery(subs, s) == IF s.once THEN subs \ {s} ELSE subs

\* The consumer loop runs statement n of callback_on_finished_wrapped for the
\* handler it is in, on the subscriptions subs and the queues qs.  The wrapped
\* callback ends with its last statement, or with the exception the
\* application's callback raises.  The application's thread runs beside it: a
\* removal made while that thread is connecting the job disturbs its connect.
LoopStatement(loop, n, subs, qs) ==
    LET handler == loop.callback_handler
        statements == callback_on_finished_wrapped(handler, loop.callback_raises)
        statement == statements[n]
        job == handler.job
        r == BrokerCall(subs, qs, statement, job, handler, <<>>)
        callback == statement.call = "callback_on_finished"
        trace == IF callback THEN Append(loop.trace, "callback_on_finished")
                 ELSE IF IsFirst(statements, n, Removing)
                 THEN Append(loop.trace, "disconnect_from_submitted_job")
                 ELSE loop.trace
        seen == IF callback THEN SubscribedKinds(subs, job) ELSE loop.seen
        raised == /\ loop.callback_raises
                  /\ \E i \in 1..Len(trace) : trace[i] = "callback_on_finished"
        returns == n = Len(statements)
        disturbs == /\ statement.call \in Removing
                    /\ sdk_pc > 0
                    /\ sdk_local.job.id = job.id
                    /\ sdk_local.op # "disconnect_from_submitted_job"
    IN /\ sdk_subs' = r.subs
       /\ queues' = r.queues
       /\ cb_count' = IF callback THEN [cb_count EXCEPT ![job.id].finished = @ + 1]
                      ELSE cb_count
       /\ connections' = IF callback
                         THEN [connections EXCEPT !.finished = Append(@, handler.object)]
                         ELSE connections
       /\ conn' = [conn EXCEPT ![job.id] =
                      ConnAfter(statements, n, loop.undisturbed, @)]
       /\ sdk_local' = IF disturbs THEN [sdk_local EXCEPT !.undisturbed = FALSE]
                       ELSE sdk_local
       /\ sdk_loop' = IF returns THEN LoopIdle
                      ELSE [loop EXCEPT !.pc = n, !.trace = trace, !.seen = seen]
       /\ last' = Last(IF returns THEN "callback_on_finished_wrapped"
                       ELSE "callback_on_finished_wrapped_statement",
                       job.id,
                       IF raised THEN "callback_on_finished" ELSE "none",
                       Args(handler.callback_on_progress_update,
                            handler.callback_on_status_update,
                            handler.auto_disconnect_on_result_handler),
                       <<>>, trace, seen)

\* The consumer loop takes the oldest result of a queue, which ends the "next
\* message" subscription, and runs the first statement of
\* callback_on_finished_wrapped of the subscription's handler.
Deliver_result(s, callback_raises) ==
    /\ sdk_loop.pc = 0
    /\ s \in sdk_subs
    /\ s.method = "callback_on_finished_wrapped"
    /\ queues[s.queue] # <<>>
    /\ LET subs == AfterDelivery(sdk_subs, s)
           qs == DeleteUnsubscribed([queues EXCEPT ![s.queue] = Tail(@)],
                                    subs, orch_subs)
           loop == [LoopIdle EXCEPT !.callback_handler = s.handler,
                                    !.callback_raises = callback_raises]
       IN LoopStatement(loop, 1, subs, qs)
    /\ UNCHANGED <<worker, pure, orch_subs, registry, orch_connected, orch_pc, used_ids,
                   handles, sdk_pc, published, new_jobs, cancelled, error_log,
                   orch_sends, foreign_sends>>

\* The next statement of the callback_on_finished_wrapped the consumer loop
\* is in.
Loop_next_statement ==
    /\ sdk_loop.pc > 0
    /\ LoopStatement(sdk_loop, sdk_loop.pc + 1, sdk_subs, queues)
    /\ UNCHANGED <<worker, pure, orch_subs, registry, orch_connected, orch_pc, used_ids,
                   handles, sdk_pc, published, new_jobs, cancelled, error_log,
                   orch_sends, foreign_sends>>

\* The consumer loop takes the oldest progress or status update of a queue
\* and runs the wrapped callback of the subscription's handler.
Deliver_update(s) ==
    /\ sdk_loop.pc = 0
    /\ s \in sdk_subs
    /\ s.method \in {"callback_on_progress_update_wrapped",
                     "callback_on_status_update_wrapped"}
    /\ queues[s.queue] # <<>>
    /\ LET id == s.handler.job.id
           progress == s.method = "callback_on_progress_update_wrapped"
           runs == IF progress THEN callback_on_progress_update_wrapped(s.handler)
                   ELSE callback_on_status_update_wrapped(s.handler)
       IN /\ sdk_subs' = AfterDelivery(sdk_subs, s)
          /\ queues' = DeleteUnsubscribed([queues EXCEPT ![s.queue] = Tail(@)],
                                          sdk_subs', orch_subs)
          /\ cb_count' = IF ~runs THEN cb_count
                         ELSE IF progress
                         THEN [cb_count EXCEPT ![id].progress = @ + 1]
                         ELSE [cb_count EXCEPT ![id].status = @ + 1]
          /\ last' = Last(s.method, id, "none", NoArgs, <<>>, <<>>, {})
    /\ UNCHANGED <<worker, pure, orch_subs, registry, orch_connected, orch_pc, used_ids,
                   handles, sdk_pc, sdk_local, sdk_loop, connections, published, conn,
                   new_jobs, cancelled, error_log, orch_sends, foreign_sends>>

\* ------------------------------------------------------------- orchestrator
NoWorkflowType == WorkflowType("")

\* orchestrator_interface.py: JobSubmissionCallbackHandler / JobCancellationHandler.
OrchCallbackHandler(workflow_type) == [workflow_type |-> workflow_type]

\* Variant of callback_on_new_job_wrapped that does not compare the workflow
\* type of the message with the one of its queue.
callback_on_new_job_wrapped_unchecked(handler, submitted_job) ==
    IF IsUuid(submitted_job.uuid)
    THEN [calls |-> <<[submission |-> submitted_job,
                       job |-> Job(submitted_job.uuid, handler.workflow_type)]>>,
          errors |-> 0, raised |-> "none"]
    ELSE [calls |-> <<>>, errors |-> 0, raised |-> "ValueError"]

\* JobSubmissionCallbackHandler.callback_on_new_job_wrapped on one decoded
\* message: the calls of callback_on_new_job it makes, the error records it
\* logs and what it raises (uuid.UUID rejects text that is no uuid).
callback_on_new_job_wrapped(handler, submitted_job) ==
    IF handler.workflow_type.workflow_type_name = submitted_job.workflow_type
    THEN IF IsUuid(submitted_job.uuid)
         THEN [calls |-> <<[submission |-> submitted_job,
                            job |-> Job(submitted_job.uuid, handler.workflow_type)]>>,
               errors |-> 0, raised |-> "none"]
         ELSE [calls |-> <<>>, errors |-> 0, raised |-> "ValueError"]
    ELSE [calls |-> <<>>, errors |-> 1, raised |-> "none"]

\* Variant of callback_on_job_cancelled_wrapped that passes on only a
\* cancellation whose uuid is one.
callback_on_job_cancelled_wrapped_uuid_checked(handler, cancelled_job) ==
    IF IsUuid(cancelled_job.uuid) THEN <<cancelled_job>> ELSE <<>>

\* JobCancellationHandler.callback_on_job_cancelled_wrapped: the calls of
\* callback_on_cancel_job it makes.
callback_on_job_cancelled_wrapped(handler, cancelled_job) == <<cancelled_job>>

\* Variant of connect_to_job_submissions in which every subscription is bound
\* to the handler of one and the same workflow type.
connect_to_job_submissions_one_handler(subs, all_workflows, i) ==
    add_queue_subscription(subs, job_submission_queue_name(all_workflows[i]),
        "callback_on_new_job_wrapped", OrchCallbackHandler(all_workflows[1]))

\* OrchestratorInterface.connect_to_job_submissions: iteration i of the loop
\* over get_all_workflows(), one handler and one subscription.
connect_to_job_submissions(subs, all_workflows, i) ==
    LET workflow_type == all_workflows[i]
        callback_handler == OrchCallbackHandler(workflow_type)
    IN add_queue_subscription(subs, job_submission_queue_name(workflow_type),
           "callback_on_new_job_wrapped", callback_handler)

\* OrchestratorInterface.connect_to_job_cancellations.
connect_to_job_cancellations(subs) ==
    add_queue_subscription(subs, job_cancel_queue_name,
        "callback_on_job_cancelled_wrapped", OrchCallbackHandler(NoWorkflowType))

\* OrchestratorInterface.send_job_progress_update / _status_update / _result:
\* the queue and the message of the one publish each makes.
send_job_progress_update(job) ==
    [queue |-> job_progress_queue_name(job),
     message |-> JobUpdate("JobProgressUpdate", job)]

\* Variant of send_job_status_update that publishes to the progress queue.
send_job_status_update_progress_queue(job) ==
    [queue |-> job_progress_queue_name(job),
     message |-> JobUpdate("JobStatusUpdate", job)]

send_job_status_update(job) ==
    [queue |-> job_status_queue_name(job),
     message |-> JobUpdate("JobStatusUpdate", job)]

send_job_result(job) ==
    [queue |-> job_results_queue_name(job),
     message |-> JobUpdate("JobResult", job)]

\* The orchestrator's thread runs iteration n of the loop of
\* connect_to_job_submissions; the method returns after the last workflow of
\* get_all_workflows(), at once when there is none.
OrchStatement(n) ==
    LET all_workflows == get_all_workflows(registry)
        returns == n >= Len(all_workflows)
    IN /\ orch_subs' = IF n <= Len(all_workflows)
                       THEN connect_to_job_submissions(orch_subs, all_workflows, n)
                       ELSE orch_subs
       /\ orch_pc' = IF returns THEN 0 ELSE n
       /\ orch_connected' = IF returns THEN orch_connected \cup {"submissions"}
                            ELSE orch_connected
       /\ last' = Last(IF returns THEN "connect_to_job_submissions"
                       ELSE "connect_to_job_submissions_statement",
                       NoJobId, "none", NoArgs, <<>>, <<>>, {})
       /\ UNCHANGED <<worker, pure, sdk_subs, queues, registry, used_ids, handles,
                      sdk_pc, sdk_local, sdk_loop, connections, published, conn,
                      cb_count, new_jobs, cancelled, error_log, orch_sends,
                      foreign_sends>>

\* A call of connect_to_job_submissions up to and including the first
\* iteration of its loop.
Call_connect_to_job_submissions ==
    /\ orch_pc = 0
    /\ "submissions" \notin orch_connected
    /\ OrchStatement(1)

\* The next iteration of the loop of connect_to_job_submissions.
Orch_next_statement ==
    /\ orch_pc > 0
    /\ OrchStatement(orch_pc + 1)

Call_connect_to_job_cancellations ==
    /\ orch_pc = 0
    /\ "cancellations" \notin orch_connected
    /\ orch_subs' = connect_to_job_cancellations(orch_subs)
    /\ orch_connected' = orch_connected \cup {"cancellations"}
    /\ last' = Last("connect_to_job_cancellations", NoJobId, "none", NoArgs,
                    <<>>, <<>>, {})
    /\ UNCHANGED <<worker, pure, sdk_subs, queues, registry, used_ids, handles, sdk_pc,
                   sdk_local, sdk_loop, orch_pc, connections, published, conn, cb_count,
                   new_jobs, cancelled, error_log, orch_sends, foreign_sends>>

\* The jobs the orchestrator was handed by callback_on_new_job.
OrchJobs == {new_jobs[i].job : i \in 1..Len(new_jobs)}

\* The jobs whose JobSubmission the client has published: the only job ids
\* anyone but the client can know.
PublishedJobs == {job \in handles \cup {sdk_local.job} : job.id \in published}

\* One send_job_* call of the orchestrator.
Call_send_job(op, job) ==
    /\ orch_sends < MaxOrchSends
    /\ LET sent == CASE op = "send_job_progress_update" -> send_job_progress_update(job)
                     [] op = "send_job_status_update" -> send_job_status_update(job)
                     [] op = "send_job_result" -> send_job_result(job)
       IN /\ queues' = send_message_to(queues, sent.queue, sent.message)
          /\ last' = Last(op, job.id, "none", NoArgs, <<sent>>, <<>>, {})
    /\ orch_sends' = orch_sends + 1
    /\ UNCHANGED <<worker, pure, sdk_subs, orch_subs, registry, orch_connected, used_ids,
                   handles, sdk_pc, sdk_local, sdk_loop, orch_pc, connections, published, conn, cb_count,
                   new_jobs, cancelled, error_log, foreign_sends>>

\* The broker hands the oldest submission of a queue to the orchestrator.
Deliver_submission(s) ==
    /\ s \in orch_subs
    /\ s.method = "callback_on_new_job_wrapped"
    /\ queues[s.queue] # <<>>
    /\ LET message == Head(queues[s.queue])
           r == callback_on_new_job_wrapped(s.handler, message)
       IN /\ new_jobs' = new_jobs \o r.calls
          /\ error_log' = error_log + r.errors
          /\ last' = Last("callback_on_new_job_wrapped", message.uuid, r.raised,
                          NoArgs, <<>>, <<>>, {})
    /\ queues' = [queues EXCEPT ![s.queue] = Tail(@)]
    /\ UNCHANGED <<worker, pure, sdk_subs, orch_subs, registry, orch_connected, used_ids,
                   handles, sdk_pc, sdk_local, sdk_loop, orch_pc, connections, published, conn, cb_count,
                   cancelled, orch_sends, foreign_sends>>

\* The broker hands the oldest cancellation to the orchestrator.
Deliver_cancellation(s) ==
    /\ s \in orch_subs
    /\ s.method = "callback_on_job_cancelled_wrapped"
    /\ queues[s.queue] # <<>>
    /\ LET message == Head(queues[s.queue])
       IN /\ cancelled' = cancelled \o callback_on_job_cancelled_wrapped(s.handler, message)
          /\ last' = Last("callback_on_job_cancelled_wrapped", message.uuid, "none",
                          NoArgs, <<>>, <<>>, {})
    /\ queues' = [queues EXCEPT ![s.queue] = Tail(@)]
    /\ UNCHANGED <<worker, pure, sdk_subs, orch_subs, registry, orch_connected, used_ids,
                   handles, sdk_pc, sdk_local, sdk_loop, orch_pc, connections, published, conn, cb_count,
                   new_jobs, error_log, orch_sends, foreign_sends>>

\* ------------------------------------------------------------- other publishers
\* A publisher that is not this SDK puts a message of its own on a submission
\* queue or on the cancellation queue.
ForeignMessages ==
    {[queue |-> job_submission_queue_name(WorkflowType(q)),
      message |-> JobSubmission(u, None, w, SomeEsdl)] :
         q \in WorkflowNames, u \in {ForeignUuid, MalformedUuid}, w \in WorkflowNames}
    \cup {[queue |-> job_cancel_queue_name, message |-> JobCancel(u)] :
             u \in JobIds \cup {ForeignUuid, MalformedUuid}}

Foreign_publish(m) ==
    /\ foreign_sends < MaxForeign
    /\ queues' = send_message_to(queues, m.queue, m.message)
    /\ foreign_sends' = foreign_sends + 1
    /\ last' = Last("foreign_publish", m.message.uuid, "none", NoArgs, <<m>>, <<>>, {})
    /\ UNCHANGED <<worker, pure, sdk_subs, orch_subs, registry, orch_connected, used_ids,
                   handles, sdk_pc, sdk_local, sdk_loop, orch_pc, connections, published, conn, cb_count,
                   new_jobs, cancelled, error_log, orch_sends>>

\* ------------------------------------------------------------- specification
\* Length of the list of workflows a WorkflowTypeManager is built from.
MaxRegistry == 2

PossibleWorkflowLists ==
    UNION {[1..n -> {WorkflowType(w) : w \in WorkflowNames}] : n \in 0..MaxRegistry}

Init ==
    /\ sdk_subs = {}
    /\ orch_subs = {}
    /\ queues = [q \in QueueNames |-> <<>>]
    /\ registry \in {WorkflowTypeManager(pw) : pw \in PossibleWorkflowLists}
    /\ orch_connected = {}
    /\ used_ids = {}
    /\ handles = {}
    /\ sdk_pc = 0
    /\ sdk_local = NoLocal
    /\ sdk_loop = LoopIdle
    /\ orch_pc = 0
    /\ connections = NoConnections
    /\ conn = [j \in JobIds |-> "none"]
    /\ cb_count = [j \in JobIds |-> NoCount]
    /\ new_jobs = <<>>
    /\ cancelled = <<>>
    /\ error_log = 0
    /\ orch_sends = 0
    /\ foreign_sends = 0
    /\ published = {}
    /\ last = Last("init", NoJobId, "none", NoArgs, <<>>, <<>>, {})
    /\ worker = NoTask
    /\ pure = NoCall

Next ==
    \/ \E w \in WorkflowNames, p \in BOOLEAN, s \in BOOLEAN, a \in BOOLEAN :
          submit_job_begin(SomeEsdl, NoJobConfig, w, None, p, s, a)
    \/ Sdk_next_statement
    \/ \E job \in handles, p \in BOOLEAN, s \in BOOLEAN, a \in BOOLEAN :
          Call_connect_to_submitted_job(job, p, s, a)
    \/ \E job \in handles : Call_disconnect_from_submitted_job(job)
    \/ \E job \in handles : Call_cancel_job(job)
    \/ \E s \in sdk_subs, callback_raises \in BOOLEAN : Deliver_result(s, callback_raises)
    \/ Loop_next_statement
    \/ \E s \in sdk_subs : Deliver_update(s)
    \/ Call_connect_to_job_submissions
    \/ Orch_next_statement
    \/ Call_connect_to_job_cancellations
    \/ \E op \in {"send_job_progress_update", "send_job_status_update", "send_job_result"},
          job \in OrchJobs : Call_send_job(op, job)
    \/ \E s \in orch_subs : Deliver_submission(s)
    \/ \E s \in orch_subs : Deliver_cancellation(s)
    \/ \E m \in ForeignMessages : Foreign_publish(m)

Spec == Init /\ [][Next]_vars

\* The client's half.  The orchestrator is any process that publishes updates
\* and results for jobs whose submission was published, at any time: every
\* sequence of messages the orchestrator of Spec can put on a job's queues is
\* among these.
NextSdk ==
    \/ \E w \in WorkflowNames, p \in BOOLEAN, s \in BOOLEAN, a \in BOOLEAN :
          submit_job_begin(SomeEsdl, NoJobConfig, w, None, p, s, a)
    \/ Sdk_next_statement
    \/ \E job \in handles, p \in BOOLEAN, s \in BOOLEAN, a \in BOOLEAN :
          Call_connect_to_submitted_job(job, p, s, a)
    \/ \E job \in handles : Call_disconnect_from_submitted_job(job)
    \/ \E job \in handles : Call_cancel_job(job)
    \/ \E s \in sdk_subs, callback_raises \in BOOLEAN : Deliver_result(s, callback_raises)
    \/ Loop_next_statement
    \/ \E s \in sdk_subs : Deliver_update(s)
    \/ \E op \in {"send_job_progress_update", "send_job_status_update", "send_job_result"},
          job \in PublishedJobs : Call_send_job(op, job)

\* The registry plays no part in the client's half: it starts empty there.
InitSdk == Init /\ registry = WorkflowTypeManager(<<>>)

SpecSdk == InitSdk /\ [][NextSdk]_vars

\* The orchestrator's half: what reaches the submission and cancellation
\* queues (from the client and from other publishers) and what the
\* orchestrator does with it.  The callbacks a client passes to submit_job
\* stay in the client: one choice of them stands for all.
NextOrch ==
    \/ \E w \in WorkflowNames :
          submit_job_begin(SomeEsdl, NoJobConfig, w, None, TRUE, TRUE, FALSE)
    \/ Sdk_next_statement
    \/ \E job \in handles : Call_cancel_job(job)
    \/ Call_connect_to_job_submissions
    \/ Orch_next_statement
    \/ Call_connect_to_job_cancellations
    \/ \E s \in orch_subs : Deliver_submission(s)
    \/ \E s \in orch_subs : Deliver_cancellation(s)
    \/ \E m \in ForeignMessages : Foreign_publish(m)

SpecOrch == Init /\ [][NextOrch]_vars

\* What submit_job puts in the submission, for every esdl, job_config and
\* job_timeout a caller can pass, and what the orchestrator is handed.
Esdls == {SomeEsdl, ""}
ConfigKeys == {"p", "q"}
JobConfigs ==
    UNION {[keys -> {PyInt(1), PyStr("a")}] : keys \in SUBSET ConfigKeys}
JobTimeouts == {None, PyTimedelta(0), PyTimedelta(400), PyTimedelta(500),
                PyTimedelta(1500), PyTimedelta(2500), PyTimedelta(501500),
                PyTimedelta(503500), PyTimedelta(0 - 1500), PyTimedelta(60000000)}

NextSubmit ==
    \/ \E esdl \in Esdls, job_config \in JobConfigs, w \in WorkflowNames,
          job_timeout \in JobTimeouts :
          submit_job_begin(esdl, job_config, w, job_timeout, TRUE, TRUE, FALSE)
    \/ Sdk_next_statement
    \/ Call_connect_to_job_submissions
    \/ Orch_next_statement
    \/ \E s \in orch_subs : Deliver_submission(s)

InitSubmit ==
    Init /\ registry = WorkflowTypeManager(<<WorkflowType("wfA"), WorkflowType("wfB")>>)

SpecSubmit == InitSubmit /\ [][NextSubmit]_vars

\* ------------------------------------------------------------- parameter values
\* workflow_type.py: the five subclasses of WorkflowParameter, by type_name.
Variants == {"string", "boolean", "integer", "float", "datetime"}

\* What a call did: the exception it raised ("none" when it returned) and the
\* value it returned.
Returned(value) == [raised |-> "none", value |-> value]

\* An exception whose message quotes the name of a field, as the TypeErrors
\* of the from_json_config methods do ("'minimum' for IntegerParameter must
\* be in 'int' format: ...", "A string enum option must contain a
\* 'display_name'").
RaisedNaming(exception, field) == [raised |-> exception, value |-> None, names |-> field]

\* An exception whose message quotes no field name.
Raised(exception) == RaisedNaming(exception, "")

\* round(value) of a float: to the nearest integer, a tie to the even one;
\* an infinity raises OverflowError and a NaN raises ValueError.
round(value) ==
    IF value.s = "inf" THEN Raised("OverflowError")
    ELSE IF value.s = "nan" THEN Raised("ValueError")
    ELSE Returned(PyValue("int", RoundHalfEven(value.n, 2), value.s))

\* datetime.fromtimestamp(value) of a float, with the same two failures, and
\* ValueError for a finite timestamp after the year 9999: the floats from
\* 2**53 on (the year 285428751).  The other floats of the model are within
\* seconds of the epoch.
fromtimestamp(value) ==
    IF value.s = "inf" THEN Raised("OverflowError")
    ELSE IF value.s = "nan" THEN Raised("ValueError")
    ELSE IF value.s = "2**53" THEN Raised("ValueError")
    ELSE Returned(PyDatetime(value.n))

\* <Variant>Parameter.from_pb_value.
from_pb_value(variant, value) ==
    CASE variant = "string" ->
            IF isinstance(value, "str") THEN Returned(value)
            ELSE Raised("WrongFieldTypeException")
      [] variant = "boolean" ->
            IF isinstance(value, "bool") THEN Returned(value)
            ELSE Raised("WrongFieldTypeException")
      [] variant = "integer" ->
            IF isinstance(value, "float") THEN round(value)
            ELSE IF isinstance(value, "int") THEN Returned(value)
            ELSE Raised("WrongFieldTypeException")
      [] variant = "float" ->
            IF isinstance(value, "float") THEN Returned(value)
            ELSE Raised("WrongFieldTypeException")
      [] variant = "datetime" ->
            IF isinstance(value, "float") THEN fromtimestamp(value)
            ELSE Raised("WrongFieldTypeException")

\* The number of logger.warning calls of <Variant>Parameter.from_pb_value:
\* one in IntegerParameter.from_pb_value when the rounded value differs from
\* the float given.
from_pb_value_warnings(variant, value) ==
    IF /\ variant = "integer"
       /\ isinstance(value, "float")
       /\ round(value).raised = "none"
       /\ value.n # 2 * round(value).value.n
    THEN 1 ELSE 0

\* <Variant>Parameter.to_pb_value.
to_pb_value(variant, value) ==
    CASE variant = "string" ->
            IF isinstance(value, "str") THEN Returned(value)
            ELSE Raised("WrongFieldTypeException")
      [] variant = "boolean" ->
            IF isinstance(value, "bool") THEN Returned(value)
            ELSE Raised("WrongFieldTypeException")
      [] variant = "integer" ->
            IF isinstance(value, "int") THEN Returned(float(value))
            ELSE Raised("WrongFieldTypeException")
      [] variant = "float" ->
            IF isinstance(value, "float") THEN Returned(value)
            ELSE Raised("WrongFieldTypeException")
      [] variant = "datetime" ->
            IF isinstance(value, "datetime") THEN Returned(PyFloat(value.n))
            ELSE Raised("WrongFieldTypeException")

\* Variant of the test for a default that takes a false default (0, False,
\* the empty string) for none: "if default_value".
default_supplied_if_truthy(default_value) == Truthy(default_value)

\* parse_workflow_config_parameter: "default_value is not None".
default_supplied(default_value) == default_value # None

\* parse_workflow_config_parameter.
parse_workflow_config_parameter(workflow_config, field_key, expected_type, default_value) ==
    LET is_present == field_key \in DOMAIN workflow_config
        maybe_value == IF is_present THEN workflow_config[field_key] ELSE None
    IN IF ~is_present
       THEN IF default_supplied(default_value) THEN Returned(default_value)
            ELSE Raised("MissingFieldException")
       ELSE LET parsed == from_pb_value(expected_type, maybe_value)
            IN IF parsed.raised = "WrongFieldTypeException"
               THEN IF default_supplied(default_value) THEN Returned(default_value)
                    ELSE Raised("WrongFieldTypeException")
               ELSE parsed

\* A call of logger.warning or logger.error: its level, the start of the
\* text of its template, and whether a line is written.  No line is written
\* when the template cannot format its arguments: logging catches the
\* exception, reports it on stderr and drops the record.
LoggerCall(level, text, written) == [level |-> level, text |-> text, written |-> written]

\* Whether "%d" formats the value: a bool, an int or a finite float.
FormatsAsInteger(value) == value.kind \in {"bool", "int", "float"} /\ value.s \notin {"inf", "nan"}

\* The logger calls made during parse_workflow_config_parameter, those of
\* <Variant>Parameter.from_pb_value included: the missing-field call; the
\* wrong-type call, whose warning formats the default with "%d"; the
\* rounding warning of IntegerParameter.from_pb_value when the value is
\* converted; none when another exception escapes.
parse_workflow_config_parameter_log(workflow_config, field_key, expected_type, default_value) ==
    LET is_present == field_key \in DOMAIN workflow_config
        level == IF default_supplied(default_value) THEN "warning" ELSE "error"
    IN IF ~is_present
       THEN <<LoggerCall(level, "field was missing in workflow configuration", TRUE)>>
       ELSE IF from_pb_value(expected_type, workflow_config[field_key]).raised
                  = "WrongFieldTypeException"
       THEN <<LoggerCall(level, "field was passed in workflow configuration but as a",
                         default_supplied(default_value) => FormatsAsInteger(default_value))>>
       ELSE [i \in 1..from_pb_value_warnings(expected_type, workflow_config[field_key]) |->
                LoggerCall("warning",
                    "A field was passed in workflow configuration but as a float value with decimal",
                    TRUE)]

\* convert_params_dict_to_struct, from parameter number i on: the first
\* parameter without a value, or with a value to_pb_value rejects, ends the
\* call.  The message of the MissingFieldException reads parameter.key, an
\* attribute no parameter has, so building it raises AttributeError.
RECURSIVE convert_params_from(_, _, _, _)
convert_params_from(workflow_parameters, params_dict, i, normalized_dict) ==
    IF i > Len(workflow_parameters) THEN Returned(normalized_dict)
    ELSE LET parameter == workflow_parameters[i]
             param_value == IF parameter.key_name \in DOMAIN params_dict
                            THEN params_dict[parameter.key_name] ELSE None
         IN IF param_value = None
            THEN IF "key" \in DOMAIN parameter THEN Raised("MissingFieldException")
                 ELSE Raised("AttributeError")
            ELSE LET pb_value == to_pb_value(parameter.class, param_value)
                 IN IF pb_value.raised # "none" THEN Raised(pb_value.raised)
                    ELSE convert_params_from(workflow_parameters, params_dict, i + 1,
                             [key \in DOMAIN normalized_dict \cup {parameter.key_name} |->
                                 IF key = parameter.key_name THEN pb_value.value
                                 ELSE normalized_dict[key]])

\* convert_params_dict_to_struct: iterating workflow_parameters = None raises
\* TypeError.
convert_params_dict_to_struct(workflow, params_dict) ==
    IF workflow.workflow_parameters = None THEN Raised("TypeError")
    ELSE convert_params_from(workflow.workflow_parameters.items, params_dict, 1, <<>>)

\* A parameter instance: its class, <Variant>Parameter, and the dataclass
\* fields of the class.  type_name holds the default the class declares, the
\* variant's name; a field the class does not have is None.
WorkflowParameter(variant, key_name, title, description, default, enum_options, minimum, maximum) ==
    [class |-> variant, type_name |-> PyStr(variant), key_name |-> key_name, title |-> title,
     description |-> description, default |-> default,
     enum_options |-> enum_options, minimum |-> minimum, maximum |-> maximum]

\* ------------------------------------------------------------- parameter definitions
\* datetime.fromisoformat / datetime.isoformat for the one date the model
\* writes out: ten seconds after the epoch.
IsoString == "1970-01-01T00:00:10"
IsoDatetime == PyDatetime(20)

fromisoformat(value) ==
    IF ~isinstance(value, "str") THEN Raised("TypeError")
    ELSE IF value.s = IsoString THEN Returned(IsoDatetime)
    ELSE Raised("ValueError")

isoformat(value) == PyStr(IsoString)

\* The keys of a configuration in the order the configurations of the model
\* hold them.
KeywordOrder ==
    <<"key_name", "title", "description", "type_name", "default", "minimum", "maximum",
      "enum_options">>

\* The dataclass fields each parameter class has besides key_name, title,
\* description and type_name.
OwnFields(variant) ==
    CASE variant = "string" -> {"default", "enum_options"}
      [] variant = "boolean" -> {"default"}
      [] variant = "integer" -> {"default", "minimum", "maximum"}
      [] variant = "float" -> {"default", "minimum", "maximum"}
      [] variant = "datetime" -> {"default"}

\* cls(**kwargs), the __init__ the dataclass generates: TypeError naming the
\* first keyword that is no field of the class, else TypeError naming
\* key_name when it is missing; a field not given takes its default, None,
\* and type_name the name the class declares.
Construct(variant, kwargs) ==
    LET fields == {"key_name", "title", "description", "type_name"} \cup OwnFields(variant)
        unexpected == {i \in 1..Len(KeywordOrder) : KeywordOrder[i] \in DOMAIN kwargs \ fields}
        get(name) == IF name \in DOMAIN kwargs THEN kwargs[name] ELSE None
    IN IF DOMAIN kwargs \ fields # {}
       THEN RaisedNaming("TypeError",
                IF unexpected = {} THEN ""
                ELSE KeywordOrder[CHOOSE i \in unexpected : \A j \in unexpected : i <= j])
       ELSE IF "key_name" \notin DOMAIN kwargs THEN RaisedNaming("TypeError", "key_name")
       ELSE Returned([WorkflowParameter(variant, get("key_name"), get("title"),
                                        get("description"), get("default"),
                                        get("enum_options"), get("minimum"),
                                        get("maximum"))
                         EXCEPT !.type_name = IF "type_name" \in DOMAIN kwargs
                                              THEN kwargs["type_name"] ELSE @])

\* StringEnumOption(key_name, display_name).
StringEnumOption(key_name, display_name) ==
    [key_name |-> key_name, display_name |-> display_name]

\* Variant of the type check of an enum option's key that reads the option.
enum_key_checked_in_enum_option(json_config, enum_option) == enum_option

\* StringParameter.from_json_config: the dict in which the type check of an
\* enum option's key looks the key up, "enum_key in json_config and not
\* isinstance(json_config[enum_key], str)": the parameter's configuration.
enum_key_checked_in(json_config, enum_option) == json_config

\* StringParameter.from_json_config, the loop over enum_options from option
\* number i on: the options built, or "TypeError".
RECURSIVE enum_options_from(_, _, _, _)
enum_options_from(json_config, options, i, built) ==
    IF i > Len(options) THEN Returned(built)
    ELSE IF \/ "key_name" \notin DOMAIN options[i]
            \/ "key_name" \in DOMAIN enum_key_checked_in(json_config, options[i])
                  /\ ~isinstance(enum_key_checked_in(json_config, options[i])["key_name"],
                                 "str")
    THEN RaisedNaming("TypeError", "key_name")
    ELSE IF \/ "display_name" \notin DOMAIN options[i]
            \/ "display_name" \in DOMAIN enum_key_checked_in(json_config, options[i])
                  /\ ~isinstance(enum_key_checked_in(json_config, options[i])["display_name"],
                                 "str")
    THEN RaisedNaming("TypeError", "display_name")
    ELSE enum_options_from(json_config, options, i + 1,
             Append(built, StringEnumOption(options[i]["key_name"],
                                            options[i]["display_name"])))

\* Variant of IntegerParameter.from_json_config that does not check minimum.
int_params_no_minimum == <<"default", "maximum">>

\* IntegerParameter.from_json_config: the fields that must be int.
int_params == <<"default", "minimum", "maximum">>

\* FloatParameter.from_json_config: the fields that must be float or int.
float_params == <<"default", "minimum", "maximum">>

With(json_config, key, value) ==
    [k \in DOMAIN json_config \cup {key} |-> IF k = key THEN value ELSE json_config[k]]

\* The first of `params` that json_config holds with a value of none of the
\* classes, 0 when there is none.
FirstNotInstance(params, json_config, classes) ==
    LET failing == {i \in 1..Len(params) :
                       /\ params[i] \in DOMAIN json_config
                       /\ \A cls \in classes : ~isinstance(json_config[params[i]], cls)}
    IN IF failing = {} THEN 0 ELSE CHOOSE i \in failing : \A j \in failing : i <= j

\* <Variant>Parameter.from_json_config.
from_json_config(variant, json_config) ==
    CASE variant = "string" ->
            IF "default" \in DOMAIN json_config
               /\ ~isinstance(json_config["default"], "str")
            THEN RaisedNaming("TypeError", "default")
            ELSE IF "enum_options" \in DOMAIN json_config
                    /\ ~isinstance(json_config["enum_options"], "list")
            THEN RaisedNaming("TypeError", "enum_options")
            ELSE IF "enum_options" \in DOMAIN json_config
            THEN LET enum_options == enum_options_from(json_config,
                                         json_config["enum_options"].items, 1, <<>>)
                 IN IF enum_options.raised # "none" THEN enum_options
                    ELSE Construct(variant, With(json_config, "enum_options",
                                                 PyListOf(enum_options.value)))
            ELSE Construct(variant, json_config)
      [] variant = "boolean" ->
            IF "default" \in DOMAIN json_config
               /\ ~isinstance(json_config["default"], "bool")
            THEN RaisedNaming("TypeError", "default")
            ELSE Construct(variant, json_config)
      [] variant = "integer" ->
            LET int_param == FirstNotInstance(int_params, json_config, {"int"})
            IN IF int_param # 0 THEN RaisedNaming("TypeError", int_params[int_param])
               ELSE Construct(variant, json_config)
      [] variant = "float" ->
            LET float_param == FirstNotInstance(float_params, json_config, {"float", "int"})
            IN IF float_param # 0 THEN RaisedNaming("TypeError", float_params[float_param])
               ELSE Construct(variant, json_config)
      [] variant = "datetime" ->
            IF "default" \in DOMAIN json_config
            THEN LET default == fromisoformat(json_config["default"])
                 IN IF default.raised # "none" THEN default
                    ELSE Construct(variant, With(json_config, "default", default.value))
            ELSE Construct(variant, json_config)

\* A field of a protobuf message given `value` at construction: None leaves
\* it unset, and an unset field reads as the zero of its type.
PbField(value, zero) ==
    IF value = None THEN [set |-> FALSE, v |-> zero] ELSE [set |-> TRUE, v |-> value]

\* A double field given an int holds the float of that value.
PbDouble(value) ==
    IF value = None THEN [set |-> FALSE, v |-> PyFloat(0)]
    ELSE [set |-> TRUE, v |-> float(value)]

HasField(field) == field.set

\* <Variant>Parameter.to_pb_message.
to_pb_message(parameter) ==
    CASE parameter.class = "string" ->
            [class |-> "StringParameterPb",
             default |-> PbField(parameter.default, PyStr("")),
             enum_options |-> IF parameter.enum_options = None
                              THEN <<>> ELSE parameter.enum_options.items]
      [] parameter.class = "boolean" ->
            [class |-> "BooleanParameterPb",
             default |-> PbField(parameter.default, PyBool(FALSE))]
      [] parameter.class = "integer" ->
            [class |-> "IntegerParameterPb",
             default |-> PbField(parameter.default, PyInt(0)),
             minimum |-> PbField(parameter.minimum, PyInt(0)),
             maximum |-> PbField(parameter.maximum, PyInt(0))]
      [] parameter.class = "float" ->
            [class |-> "FloatParameterPb",
             default |-> PbDouble(parameter.default),
             minimum |-> PbDouble(parameter.minimum),
             maximum |-> PbDouble(parameter.maximum)]
      [] parameter.class = "datetime" ->
            [class |-> "DateTimeParameterPb",
             default |-> PbField(IF parameter.default = None THEN None
                                 ELSE isoformat(parameter.default), PyStr(""))]

\* WorkflowTypeManager.to_pb_message, for one parameter: the WorkflowParameterPb
\* with the parameter's own message copied into its oneof.
WorkflowParameterPb(parameter) ==
    [key_name |-> PbField(parameter.key_name, PyStr("")),
     title |-> PbField(parameter.title, PyStr("")),
     description |-> PbField(parameter.description, PyStr("")),
     parameter_type |-> to_pb_message(parameter)]

\* Variant of the reading of minimum and maximum that tells an unset bound by
\* its value.
optional_bound_by_value(field) == IF field.v.n # 0 THEN field.v ELSE None

\* IntegerParameter/FloatParameter.from_pb_message: minimum and maximum are
\* read only when HasField says they are set.
optional_bound(field) == IF HasField(field) THEN field.v ELSE None

\* PB_CLASS_TO_PARAMETER_CLASS.
PB_CLASS_TO_PARAMETER_CLASS(class) ==
    CASE class = "StringParameterPb" -> "string"
      [] class = "BooleanParameterPb" -> "boolean"
      [] class = "IntegerParameterPb" -> "integer"
      [] class = "FloatParameterPb" -> "float"
      [] class = "DateTimeParameterPb" -> "datetime"

\* <Variant>Parameter.from_pb_message.  DateTimeParameter reads its default
\* with datetime.fromisoformat and catches TypeError only (raising TypeError
\* again): the ValueError of a text that is no ISO date leaves the call.
from_pb_message(parameter_pb, parameter_type_pb) ==
    LET variant == PB_CLASS_TO_PARAMETER_CLASS(parameter_type_pb.class)
        key_name == parameter_pb.key_name.v
        title == parameter_pb.title.v
        description == parameter_pb.description.v
    IN CASE variant = "string" ->
               Returned(WorkflowParameter(variant, key_name, title, description,
                   parameter_type_pb.default.v,
                   PyListOf(parameter_type_pb.enum_options), None, None))
         [] variant = "boolean" ->
               Returned(WorkflowParameter(variant, key_name, title, description,
                   parameter_type_pb.default.v, None, None, None))
         [] variant \in {"integer", "float"} ->
               Returned(WorkflowParameter(variant, key_name, title, description,
                   parameter_type_pb.default.v, None,
                   optional_bound(parameter_type_pb.minimum),
                   optional_bound(parameter_type_pb.maximum)))
         [] variant = "datetime" ->
               LET default == IF HasField(parameter_type_pb.default)
                              THEN fromisoformat(parameter_type_pb.default.v)
                              ELSE Returned(None)
               IN IF default.raised # "none" THEN Raised(default.raised)
                  ELSE Returned(WorkflowParameter(variant, key_name, title, description,
                                    default.value, None, None, None))

\* The dataclass __eq__ of the parameter classes: same class, and equal
\* key_name, title, description and type_name (the fields with compare=True).
compare_fields == <<"key_name", "title", "description", "type_name">>

__eq__(self, other) ==
    /\ self.class = other.class
    /\ \A i \in 1..Len(compare_fields) : self[compare_fields[i]] = other[compare_fields[i]]

\* The dataclass __hash__: the hash of the tuple of the fields with hash=True
\* (type_name, with hash unset, follows compare).
__hash__(self) == [i \in 1..Len(compare_fields) |-> self[compare_fields[i]]]

\* WorkflowType(name, description, workflow_parameters).
WorkflowTypeWith(name, workflow_parameters) ==
    [workflow_type_name |-> name,
     workflow_type_description_name |-> "description of " \o name,
     workflow_parameters |-> workflow_parameters]

\* ------------------------------------------------------------- registry
\* WorkflowType(workflow_type_name, workflow_type_description_name,
\* workflow_parameters).
WorkflowTypeOf(workflow_type_name, workflow_type_description_name, workflow_parameters) ==
    [workflow_type_name |-> workflow_type_name,
     workflow_type_description_name |-> workflow_type_description_name,
     workflow_parameters |-> workflow_parameters]

\* Variant of the WorkflowType declaration with compare=True and hash=True on
\* the description as well.
WorkflowType_compare_fields_with_description == <<"workflow_type_name", "workflow_type_description_name">>

\* The fields of WorkflowType declared with compare=True and hash=True.
WorkflowType_compare_fields == <<"workflow_type_name">>

\* The dataclass __eq__ and __hash__ of WorkflowType.
WorkflowType__eq__(self, other) ==
    \A i \in 1..Len(WorkflowType_compare_fields) :
       self[WorkflowType_compare_fields[i]] = other[WorkflowType_compare_fields[i]]

WorkflowType__hash__(self) ==
    [i \in 1..Len(WorkflowType_compare_fields) |-> self[WorkflowType_compare_fields[i]]]

\* Variant of WorkflowTypeManager.to_pb_message that lists the parameters of
\* a workflow in reverse.
workflow_pb_parameters_reversed(workflow_parameters) ==
    IF workflow_parameters = None \/ workflow_parameters.items = <<>> THEN <<>>
    ELSE [i \in 1..Len(workflow_parameters.items) |->
             WorkflowParameterPb(workflow_parameters.items[
                 Len(workflow_parameters.items) + 1 - i])]

\* WorkflowTypeManager.to_pb_message, for one workflow: its parameters, none
\* when workflow_parameters is None or empty.
workflow_pb_parameters(workflow_parameters) ==
    IF workflow_parameters = None \/ workflow_parameters.items = <<>> THEN <<>>
    ELSE [i \in 1..Len(workflow_parameters.items) |->
             WorkflowParameterPb(workflow_parameters.items[i])]

\* WorkflowTypeManager.to_pb_message over self._workflows.values().
WorkflowTypeManager_to_pb_message(values) ==
    [i \in 1..Len(values) |->
        [type_name |-> values[i].workflow_type_name,
         type_description |-> values[i].workflow_type_description_name,
         parameters |-> workflow_pb_parameters(values[i].workflow_parameters)]]

\* The classes PB_CLASS_TO_PARAMETER_CLASS lists.
PbParameterClasses ==
    {"StringParameterPb", "BooleanParameterPb", "IntegerParameterPb",
     "FloatParameterPb", "DateTimeParameterPb"}

\* The parameter_type oneof of a WorkflowParameterPb with no member set.
UnsetOneof == [class |-> "NoneType"]

\* parameter_pb.WhichOneof("parameter_type"): None when no member is set.
WhichOneof(parameter_pb) ==
    IF parameter_pb.parameter_type.class = UnsetOneof.class THEN None
    ELSE PyStr(parameter_pb.parameter_type.class)

\* WorkflowTypeManager.from_pb_message, the body of the loop over the
\* parameters of a workflow: TypeError when no member of the oneof is set,
\* RuntimeError for a member of a class PB_CLASS_TO_PARAMETER_CLASS does not
\* list, else what from_pb_message of the class returns or raises.
parameter_from_pb(parameter_pb) ==
    IF WhichOneof(parameter_pb) = None THEN Raised("TypeError")
    ELSE IF parameter_pb.parameter_type.class \notin PbParameterClasses
    THEN Raised("RuntimeError")
    ELSE from_pb_message(parameter_pb, parameter_pb.parameter_type)

\* The loop over the parameters of one workflow, from parameter number j on:
\* the first exception ends the call.
RECURSIVE workflow_parameters_from_pb(_, _, _)
workflow_parameters_from_pb(parameters, j, workflow_parameters) ==
    IF j > Len(parameters) THEN Returned(workflow_parameters)
    ELSE LET parameter == parameter_from_pb(parameters[j])
         IN IF parameter.raised # "none" THEN parameter
            ELSE workflow_parameters_from_pb(parameters, j + 1,
                     Append(workflow_parameters, parameter.value))

\* The loop over the workflows of the message, from workflow number i on.
RECURSIVE workflow_types_from_pb(_, _, _)
workflow_types_from_pb(available_workflows_pb, i, workflow_types) ==
    IF i > Len(available_workflows_pb) THEN Returned(workflow_types)
    ELSE LET workflow_parameters ==
                 workflow_parameters_from_pb(available_workflows_pb[i].parameters, 1, <<>>)
         IN IF workflow_parameters.raised # "none" THEN workflow_parameters
            ELSE workflow_types_from_pb(available_workflows_pb, i + 1,
                     Append(workflow_types,
                         WorkflowTypeOf(available_workflows_pb[i].type_name,
                             available_workflows_pb[i].type_description,
                             PyListOf(workflow_parameters.value))))

\* WorkflowTypeManager.from_pb_message: the list workflow_types it builds and
\* the manager made of it.
WorkflowTypeManager_from_pb_message(available_workflows_pb) ==
    LET workflow_types == workflow_types_from_pb(available_workflows_pb, 1, <<>>)
    IN IF workflow_types.raised # "none" THEN workflow_types
       ELSE Returned(dict_values(workflow_types.value))

\* ------------------------------------------------------------- worker
\* Number of progress updates the task function emits in one execution.
MaxBodyUpdates == 2

\* worker.py: the module-level WORKER_TASK_TYPE and the names WorkerConfig
\* gives the two queues of the worker.
WORKER_TASK_TYPE == "wfA"
task_progress_queue_name == "WORKER.config.task_progress_queue_name"
task_result_queue_name == "WORKER.config.task_result_queue_name"
CeleryTaskId == "celery-task-1"

TaskProgressUpdate(job_id, celery_task_id, celery_task_type, progress, message) ==
    [type |-> "TaskProgressUpdate", job_id |-> job_id,
     celery_task_id |-> celery_task_id, celery_task_type |-> celery_task_type,
     progress |-> progress, message |-> message,
     result_type |-> "", output_esdl |-> "", logs |-> ""]

TaskResult(job_id, celery_task_id, celery_task_type, result_type, output_esdl, logs) ==
    [type |-> "TaskResult", job_id |-> job_id,
     celery_task_id |-> celery_task_id, celery_task_type |-> celery_task_type,
     progress |-> None, message |-> "",
     result_type |-> result_type, output_esdl |-> output_esdl, logs |-> logs]

\* TaskUtil.update_progress: one publish to the progress queue.
update_progress(sent, job_id, fraction, message) ==
    Append(sent, [queue |-> task_progress_queue_name,
                  message |-> TaskProgressUpdate(job_id, CeleryTaskId, WORKER_TASK_TYPE,
                                                 float(fraction), message)])

\* A str the task function can return that has no UTF-8 encoding: it holds
\* a lone surrogate.
OutputWithLoneSurrogate == "<out>(lone surrogate U+DC80)</out>"

\* output_esdl.encode(): the UTF-8 bytes, or UnicodeEncodeError.
encode(output_esdl) ==
    IF output_esdl = OutputWithLoneSurrogate THEN Raised("UnicodeEncodeError")
    ELSE Returned(output_esdl)

\* Variant of the end of wrapped_worker_task that sends the result in a
\* finally clause, whether or not the task function returned.
wrapped_worker_task_after_body_finally(returned) ==
    <<"update_progress", "send_message_to">>

\* Variant of the end of wrapped_worker_task that sends the result before the
\* last progress update.
wrapped_worker_task_after_body_result_first(returned) ==
    IF returned THEN <<"send_message_to", "update_progress">> ELSE <<>>

\* wrapped_worker_task from the statement after the call of the task
\* function, its broker calls in program order: reached only when the call
\* returned; an exception leaves the function.
wrapped_worker_task_after_body(returned) ==
    IF returned THEN <<"update_progress", "send_message_to">> ELSE <<>>

\* One of the two broker calls after the task function, with what is built
\* for it: the messages published after it and the exception raised.  The
\* TaskResult is built from output_esdl.encode() before it is sent.
WorkerStatement(statement, sent, job_id, output_esdl) ==
    IF statement = "update_progress"
    THEN [sent |-> update_progress(sent, job_id, PyFloat(2), "Calculation finished."),
          raised |-> "none"]
    ELSE IF encode(output_esdl).raised # "none"
    THEN [sent |-> sent, raised |-> encode(output_esdl).raised]
    ELSE [sent |-> Append(sent,
                      [queue |-> task_result_queue_name,
                       message |-> TaskResult(job_id, CeleryTaskId, WORKER_TASK_TYPE,
                                      "SUCCEEDED", encode(output_esdl).value, "")]),
          raised |-> "none"]

\* WorkerTask.on_failure: one error record in the log, nothing published.
on_failure(log, task_id) ==
    Append(log, "Failure detected for celery task " \o task_id)

\* What a task function does in one call: the progress updates it emits, then
\* it returns its output or raises.
Fractions == {PyInt(0), PyFloat(1), PyFloat(2)}
TaskBodies ==
    [updates : UNION {[1..n -> Fractions] : n \in 0..MaxBodyUpdates},
     raises : BOOLEAN,
     output_esdl : {"<out/>", "", OutputWithLoneSurrogate}]

\* Celery runs wrapped_worker_task: up to the call of the task function.  The
\* input bytes either decode as UTF-8 or decode() raises.
Worker_start(job_id, body, input_decodes) ==
    /\ worker.pc = "idle"
    /\ worker' = [pc |-> IF input_decodes THEN "body" ELSE "raised",
                  job_id |-> job_id, body |-> body, emitted |-> 0,
                  returned |-> FALSE, statement |-> 0,
                  sent |-> update_progress(<<>>, job_id, PyInt(0),
                                           "Job calculation started"),
                  log |-> <<>>]
    /\ UNCHANGED <<sdk_subs, orch_subs, queues, registry, orch_connected, used_ids,
                   handles, sdk_pc, sdk_local, sdk_loop, orch_pc, connections, conn, cb_count,
                   new_jobs, cancelled,
                   error_log, orch_sends, foreign_sends, published, last, pure>>

\* The task function calls the update_progress handler it was given.
Worker_body_update ==
    /\ worker.pc = "body"
    /\ worker.emitted < Len(worker.body.updates)
    /\ worker' = [worker EXCEPT
                    !.emitted = @ + 1,
                    !.sent = update_progress(@, worker.job_id,
                                 worker.body.updates[worker.emitted + 1],
                                 "task progress")]
    /\ UNCHANGED <<sdk_subs, orch_subs, queues, registry, orch_connected, used_ids,
                   handles, sdk_pc, sdk_local, sdk_loop, orch_pc, connections, conn, cb_count,
                   new_jobs, cancelled,
                   error_log, orch_sends, foreign_sends, published, last, pure>>

\* The call of the task function ends: it returns its output or raises.
\* With no statement left to run an exception leaves wrapped_worker_task.
Worker_body_end ==
    /\ worker.pc = "body"
    /\ worker.emitted = Len(worker.body.updates)
    /\ LET returned == ~worker.body.raises
       IN worker' = [worker EXCEPT
                       !.returned = returned,
                       !.pc = IF wrapped_worker_task_after_body(returned) = <<>>
                              THEN "raised" ELSE "after_body"]
    /\ UNCHANGED <<sdk_subs, orch_subs, queues, registry, orch_connected, used_ids,
                   handles, sdk_pc, sdk_local, sdk_loop, orch_pc, connections, conn, cb_count,
                   new_jobs, cancelled,
                   error_log, orch_sends, foreign_sends, published, last, pure>>

\* wrapped_worker_task makes its next broker call after the task function.
\* After the last one it returns (or, in a variant that runs them for a task
\* function that raised, the exception leaves it).
Worker_after_body ==
    /\ worker.pc = "after_body"
    /\ LET statements == wrapped_worker_task_after_body(worker.returned)
           r == WorkerStatement(statements[worker.statement + 1], worker.sent,
                                worker.job_id, worker.body.output_esdl)
       IN worker' = [worker EXCEPT
                       !.statement = @ + 1,
                       !.sent = r.sent,
                       !.pc = IF r.raised # "none" THEN "raised"
                              ELSE IF worker.statement + 1 < Len(statements)
                              THEN "after_body"
                              ELSE IF worker.returned THEN "done" ELSE "raised"]
    /\ UNCHANGED <<sdk_subs, orch_subs, queues, registry, orch_connected, used_ids,
                   handles, sdk_pc, sdk_local, sdk_loop, orch_pc, connections, conn, cb_count,
                   new_jobs, cancelled,
                   error_log, orch_sends, foreign_sends, published, last, pure>>

\* Celery calls on_failure for the task that raised.
Worker_on_failure ==
    /\ worker.pc = "raised"
    /\ worker' = [worker EXCEPT !.pc = "failed",
                                !.log = on_failure(@, CeleryTaskId)]
    /\ UNCHANGED <<sdk_subs, orch_subs, queues, registry, orch_connected, used_ids,
                   handles, sdk_pc, sdk_local, sdk_loop, orch_pc, connections, conn, cb_count,
                   new_jobs, cancelled,
                   error_log, orch_sends, foreign_sends, published, last, pure>>

NextWorker ==
    \/ \E job_id \in {UUIDs[1]}, body \in TaskBodies, input_decodes \in BOOLEAN :
          Worker_start(job_id, body, input_decodes)
    \/ Worker_body_update
    \/ Worker_body_end
    \/ Worker_after_body
    \/ Worker_on_failure

InitWorker == Init /\ registry = WorkflowTypeManager(<<>>)

SpecWorker == InitWorker /\ [][NextWorker]_vars

\* ------------------------------------------------------------- parameter calls
\* Number of parameters a workflow declares.
MaxParams == 2

\* Values a configuration or a params_dict can hold for a key.
ConfigValues ==
    {None, PyStr("a"), PyStr(""), PyBool(TRUE), PyBool(FALSE), PyInt(0), PyInt(1),
     PyFloat(0), PyFloat(3), PyFloat(4), PyFloat(5), PyInf, PyNaN, PyBigFloat(0),
     PyDatetime(20), PyList}
DefaultValues == {None, PyInt(5), PyInt(0), PyBool(FALSE), PyStr("d"), PyStr("")}
FieldKeys == {"x", "y"}
WorkflowConfigs == UNION {[keys -> ConfigValues] : keys \in {{}, {"x"}}}

ParamValues == {None, PyStr("a"), PyBool(TRUE), PyInt(1), PyFloat(3), PyDatetime(20)}
ParamsDicts == UNION {[keys -> ParamValues] : keys \in SUBSET ConfigKeys}
DeclaredParameters ==
    {WorkflowParameter(variant, key, None, None, None, None, None, None) :
        variant \in Variants, key \in ConfigKeys}
Workflows ==
    {WorkflowType("wfA")}
    \cup {WorkflowTypeWith("wfA", PyListOf(parameters)) :
            parameters \in UNION {[1..n -> DeclaredParameters] : n \in 0..MaxParams}}

NotRun == [raised |-> "not run", value |-> None]

ParseCalls ==
    {[op |-> "parse_workflow_config_parameter", workflow_config |-> c,
      field_key |-> k, expected_type |-> v, default_value |-> d, outcome |-> NotRun,
      log |-> <<>>] :
        c \in WorkflowConfigs, k \in FieldKeys, v \in Variants, d \in DefaultValues}

ConvertCalls ==
    {[op |-> "convert_params_dict_to_struct", workflow |-> w, params_dict |-> d,
      outcome |-> NotRun] : w \in Workflows, d \in ParamsDicts}

\* Values of a google.protobuf Struct as Python reads them, and values no
\* Struct holds.
WireValues ==
    ConfigValues \cup {PyFloat(1), PyFloat(7), PyFloat(-1), PyFloat(-3), PyFloat(-4),
                       PyInt(-1), PyBigFloat(0), PyBigFloat(4)}

FromPbValueCalls ==
    {[op |-> "from_pb_value", variant |-> v, value |-> x, outcome |-> NotRun,
      warnings |-> 0] : v \in Variants, x \in WireValues}

\* Native values handed to to_pb_value.
NativeValues ==
    ParamValues \cup {PyStr(""), PyBool(FALSE), PyInt(0), PyInt(-1), PyInt(7),
                      PyBigInt(0), PyBigInt(1), PyBigInt(2), PyBigInt(3),
                      PyFloat(0), PyFloat(-3), PyFloat(4), PyInf, PyNaN,
                      PyDatetime(0), PyDatetime(21), PyList}

PbValueRoundTripCalls ==
    {[op |-> "to_pb_value_from_pb_value", variant |-> v, value |-> x, wire |-> NotRun,
      outcome |-> NotRun] : v \in Variants, x \in NativeValues}

Call_from_pb_value ==
    /\ pure.op = "from_pb_value"
    /\ pure.outcome = NotRun
    /\ pure' = [pure EXCEPT !.outcome = from_pb_value(pure.variant, pure.value),
                            !.warnings = from_pb_value_warnings(pure.variant, pure.value)]
    /\ UNCHANGED <<sdk_subs, orch_subs, queues, registry, orch_connected, used_ids,
                   handles, sdk_pc, sdk_local, sdk_loop, orch_pc, connections, conn, cb_count,
                   new_jobs, cancelled,
                   error_log, orch_sends, foreign_sends, published, last, worker>>

\* <Variant>Parameter.from_pb_value(<Variant>Parameter.to_pb_value(value)).
Call_to_pb_value_from_pb_value ==
    /\ pure.op = "to_pb_value_from_pb_value"
    /\ pure.outcome = NotRun
    /\ LET wire == to_pb_value(pure.variant, pure.value)
       IN pure' = [pure EXCEPT !.wire = wire,
                               !.outcome = IF wire.raised = "none"
                                           THEN from_pb_value(pure.variant, wire.value)
                                           ELSE wire]
    /\ UNCHANGED <<sdk_subs, orch_subs, queues, registry, orch_connected, used_ids,
                   handles, sdk_pc, sdk_local, sdk_loop, orch_pc, connections, conn, cb_count,
                   new_jobs, cancelled,
                   error_log, orch_sends, foreign_sends, published, last, worker>>

Call_parse_workflow_config_parameter ==
    /\ pure.op = "parse_workflow_config_parameter"
    /\ pure.outcome = NotRun
    /\ pure' = [pure EXCEPT !.outcome =
                   parse_workflow_config_parameter(pure.workflow_config, pure.field_key,
                       pure.expected_type, pure.default_value),
                            !.log =
                   parse_workflow_config_parameter_log(pure.workflow_config, pure.field_key,
                       pure.expected_type, pure.default_value)]
    /\ UNCHANGED <<sdk_subs, orch_subs, queues, registry, orch_connected, used_ids,
                   handles, sdk_pc, sdk_local, sdk_loop, orch_pc, connections, conn, cb_count,
                   new_jobs, cancelled,
                   error_log, orch_sends, foreign_sends, published, last, worker>>

Call_convert_params_dict_to_struct ==
    /\ pure.op = "convert_params_dict_to_struct"
    /\ pure.outcome = NotRun
    /\ pure' = [pure EXCEPT !.outcome =
                   convert_params_dict_to_struct(pure.workflow, pure.params_dict)]
    /\ UNCHANGED <<sdk_subs, orch_subs, queues, registry, orch_connected, used_ids,
                   handles, sdk_pc, sdk_local, sdk_loop, orch_pc, connections, conn, cb_count,
                   new_jobs, cancelled,
                   error_log, orch_sends, foreign_sends, published, last, worker>>

\* dict.pop(key) on a configuration.
pop(json_config, key) == [k \in DOMAIN json_config \ {key} |-> json_config[k]]

\* WorkflowTypeManager.from_json_config_file: the search of
\* PARAMETER_CLASS_TO_PB_CLASS for the class whose type_name is the entry's
\* parameter_type.  The loop ends without a class when no type_name matches.
NoClass == "no class"

\* Variant of the search that takes StringParameter when no type_name
\* matches.
parameter_type_class_named_or_string(parameter_type_name) ==
    IF parameter_type_name \in Variants THEN parameter_type_name ELSE "string"

parameter_type_class_named(parameter_type_name) ==
    IF parameter_type_name \in Variants THEN parameter_type_name ELSE NoClass

\* WorkflowTypeManager.from_json_config_file, the parameters of one workflow
\* from entry number i on: an entry whose parameter_type names none of the
\* parameter classes is passed over; the first entry from_json_config rejects
\* ends the call.
RECURSIVE parameters_from_json(_, _, _)
parameters_from_json(parameter_configs, i, workflow_parameters) ==
    IF i > Len(parameter_configs) THEN Returned(workflow_parameters)
    ELSE IF "parameter_type" \notin DOMAIN parameter_configs[i] THEN Raised("KeyError")
    ELSE LET parameter_type_name == parameter_configs[i]["parameter_type"].s
             parameter_config == pop(parameter_configs[i], "parameter_type")
             parameter_type_class == parameter_type_class_named(parameter_type_name)
         IN IF parameter_type_class = NoClass
            THEN parameters_from_json(parameter_configs, i + 1, workflow_parameters)
            ELSE LET parameter == from_json_config(parameter_type_class, parameter_config)
                 IN IF parameter.raised # "none" THEN parameter
                    ELSE parameters_from_json(parameter_configs, i + 1,
                             Append(workflow_parameters, parameter.value))

\* WorkflowTypeManager.from_json_config_file from workflow number i on, with
\* the content of the file given as json.load returns it.
RECURSIVE workflow_types_from_json(_, _, _)
workflow_types_from_json(json_config_dict, i, workflow_types) ==
    IF i > Len(json_config_dict) THEN Returned(dict_values(workflow_types))
    ELSE LET _workflow == json_config_dict[i]
             workflow_parameters ==
                 IF "workflow_parameters" \in DOMAIN _workflow
                 THEN parameters_from_json(_workflow["workflow_parameters"], 1, <<>>)
                 ELSE Returned(<<>>)
         IN IF workflow_parameters.raised # "none" THEN workflow_parameters
            ELSE workflow_types_from_json(json_config_dict, i + 1,
                     Append(workflow_types,
                         WorkflowTypeOf(_workflow["workflow_type_name"],
                             _workflow["workflow_type_description_name"],
                             PyListOf(workflow_parameters.value))))

\* Variant of from_json_config_file that answers a failure with an empty
\* registry.
from_json_config_file_empty_on_failure(json_config_dict) ==
    LET result == workflow_types_from_json(json_config_dict, 1, <<>>)
    IN IF result.raised # "none" THEN Returned(<<>>) ELSE result

from_json_config_file(json_config_dict) == workflow_types_from_json(json_config_dict, 1, <<>>)

\* Everything but the call is as after construction.
InitOthers ==
    /\ sdk_subs = {}
    /\ orch_subs = {}
    /\ queues = [q \in QueueNames |-> <<>>]
    /\ registry = WorkflowTypeManager(<<>>)
    /\ orch_connected = {}
    /\ used_ids = {}
    /\ handles = {}
    /\ sdk_pc = 0
    /\ sdk_local = NoLocal
    /\ sdk_loop = LoopIdle
    /\ orch_pc = 0
    /\ connections = NoConnections
    /\ conn = [j \in JobIds |-> "none"]
    /\ cb_count = [j \in JobIds |-> NoCount]
    /\ new_jobs = <<>>
    /\ cancelled = <<>>
    /\ error_log = 0
    /\ orch_sends = 0
    /\ foreign_sends = 0
    /\ published = {}
    /\ last = Last("init", NoJobId, "none", NoArgs, <<>>, <<>>, {})
    /\ worker = NoTask


\* ------------------------------------------------------------- definition calls
\* A configuration fragment: for each key, the value it holds or no entry.
Absent == PyValue("absent", 0, "")

Fragment(options) ==
    [key \in {k \in DOMAIN options : options[k] # Absent} |-> options[key]]

EnumOptionLists ==
    {PyListOf(<<>>),
     PyListOf(<<[key_name |-> PyStr("a"), display_name |-> PyStr("A")]>>),
     PyListOf(<<[key_name |-> PyStr("a")]>>)}

Fragments ==
    {Fragment([key_name |-> k, title |-> t, description |-> d, default |-> df,
               minimum |-> mn, maximum |-> mx, enum_options |-> eo]) :
        k \in {PyStr("k"), PyInt(7), Absent},
        t \in {PyStr("T"), Absent},
        d \in {PyStr("D"), Absent},
        df \in {PyStr("s"), PyStr(IsoString), PyBool(TRUE), PyInt(2), PyFloat(3), Absent},
        mn \in {PyInt(0), PyInt(1), PyFloat(0), PyFloat(3), Absent},
        mx \in {PyInt(0), PyInt(4), Absent},
        eo \in EnumOptionLists \cup {PyStr("s"), Absent}}

\* A fragment from_json_config accepts whose values the protobuf messages
\* accept too: text for key_name, title and description, and numbers that are
\* not bools.
ValidFragment(variant, json_config) ==
    /\ from_json_config(variant, json_config).raised = "none"
    /\ \A key \in DOMAIN json_config \cap {"key_name", "title", "description"} :
          json_config[key].kind = "str"
    /\ \A key \in DOMAIN json_config \cap {"default", "minimum", "maximum"} :
          variant \in {"integer", "float"} => json_config[key].kind # "bool"

\* enum_options whose options hold key_name and display_name, as text or as
\* something else.
TypedEnumOptionLists ==
    {PyListOf(<<[key_name |-> k, display_name |-> d]>>) :
        k \in {PyStr("a"), PyInt(7), None}, d \in {PyStr("A"), PyBool(TRUE)}}
    \cup {PyListOf(<<[key_name |-> PyStr("a"), display_name |-> PyStr("A")],
                     [key_name |-> PyInt(7), display_name |-> PyList]>>)}

EnumOptionFragments ==
    {Fragment([key_name |-> k, default |-> df, enum_options |-> eo]) :
        k \in {PyStr("k"), PyInt(7)},
        df \in {PyStr("s"), Absent},
        eo \in TypedEnumOptionLists}

\* Fragments that give type_name, a field of every parameter class: a name
\* no class declares, and the name IntegerParameter declares.
TypeNameFragments ==
    {Fragment([key_name |-> k, type_name |-> tn, default |-> df]) :
        k \in {PyStr("k"), Absent},
        tn \in {PyStr("x"), PyStr("integer")},
        df \in {PyBool(TRUE), Absent}}

FromJsonCalls ==
    {[op |-> "from_json_config", variant |-> v, json_config |-> f, outcome |-> NotRun] :
        v \in Variants, f \in Fragments \cup TypeNameFragments}
    \cup {[op |-> "from_json_config", variant |-> "string", json_config |-> f,
           outcome |-> NotRun] : f \in EnumOptionFragments}

RoundTripCalls ==
    {call \in {[op |-> "round_trip", variant |-> v, json_config |-> f, outcome |-> NotRun] :
                  v \in Variants, f \in Fragments \cup TypeNameFragments} :
        ValidFragment(call.variant, call.json_config)}

\* Instances as the constructors make them, and two StringParameters made
\* with a type_name of their own.
Instances ==
    {WorkflowParameter(v, PyStr(k), t, d, None, None, None, None) :
        v \in Variants, k \in {"k", "j"}, t \in {None, PyStr("T"), PyStr("U")},
        d \in {None, PyStr("D")}}
    \cup {Construct("string", [key_name |-> PyStr("k"), type_name |-> tn]).value :
            tn \in {PyStr("x"), PyStr("integer")}}

EqCalls ==
    {[op |-> "__eq__", self |-> a, other |-> b, outcome |-> NotRun] :
        a \in Instances, b \in Instances}

Call_from_json_config ==
    /\ pure.op = "from_json_config"
    /\ pure.outcome = NotRun
    /\ pure' = [pure EXCEPT !.outcome = from_json_config(pure.variant, pure.json_config)]
    /\ UNCHANGED <<sdk_subs, orch_subs, queues, registry, orch_connected, used_ids,
                   handles, sdk_pc, sdk_local, sdk_loop, orch_pc, connections, conn, cb_count,
                   new_jobs, cancelled,
                   error_log, orch_sends, foreign_sends, published, last, worker>>

\* Configuration fragments for an Integer parameter whose default, minimum
\* and maximum are booleans, ints, floats or not given.
IntegerFragments ==
    {Fragment([key_name |-> PyStr("k"), default |-> df, minimum |-> mn, maximum |-> mx]) :
        df \in {PyBool(TRUE), PyInt(2), PyFloat(3), Absent},
        mn \in {PyBool(FALSE), PyInt(0), PyFloat(0), Absent},
        mx \in {PyBool(TRUE), PyInt(4), Absent}}

IntegerFromJsonCalls ==
    {[op |-> "from_json_config", variant |-> "integer", json_config |-> f,
      outcome |-> NotRun] : f \in IntegerFragments}

\* Calls of the value functions of workflow_type.py, one call per behaviour.
InitValues ==
    /\ InitOthers
    /\ pure \in ParseCalls \cup ConvertCalls \cup FromPbValueCalls \cup PbValueRoundTripCalls
                \cup IntegerFromJsonCalls

NextValues ==
    \/ Call_parse_workflow_config_parameter
    \/ Call_convert_params_dict_to_struct
    \/ Call_from_pb_value
    \/ Call_to_pb_value_from_pb_value
    \/ Call_from_json_config

SpecValues == InitValues /\ [][NextValues]_vars

\* from_json_config, then WorkflowTypeManager.to_pb_message and
\* WorkflowTypeManager.from_pb_message for the parameter.
Call_round_trip ==
    /\ pure.op = "round_trip"
    /\ pure.outcome = NotRun
    /\ LET original == from_json_config(pure.variant, pure.json_config).value
           parameter_pb == WorkflowParameterPb(original)
           reconstructed == from_pb_message(parameter_pb, parameter_pb.parameter_type)
       IN pure' = [pure EXCEPT !.outcome =
                      IF reconstructed.raised # "none" THEN reconstructed
                      ELSE Returned([original |-> original,
                                     reconstructed |-> reconstructed.value])]
    /\ UNCHANGED <<sdk_subs, orch_subs, queues, registry, orch_connected, used_ids,
                   handles, sdk_pc, sdk_local, sdk_loop, orch_pc, connections, conn, cb_count,
                   new_jobs, cancelled,
                   error_log, orch_sends, foreign_sends, published, last, worker>>

Call_eq ==
    /\ pure.op = "__eq__"
    /\ pure.outcome = NotRun
    /\ pure' = [pure EXCEPT !.outcome =
                   Returned([eq |-> __eq__(pure.self, pure.other),
                             hash_eq |-> __hash__(pure.self) = __hash__(pure.other)])]
    /\ UNCHANGED <<sdk_subs, orch_subs, queues, registry, orch_connected, used_ids,
                   handles, sdk_pc, sdk_local, sdk_loop, orch_pc, connections, conn, cb_count,
                   new_jobs, cancelled,
                   error_log, orch_sends, foreign_sends, published, last, worker>>

\* Calls on parameter definitions, one call per behaviour.
InitDefinitions == InitOthers /\ pure \in FromJsonCalls \cup RoundTripCalls \cup EqCalls

NextDefinitions ==
    \/ Call_from_json_config
    \/ Call_round_trip
    \/ Call_eq

SpecDefinitions == InitDefinitions /\ [][NextDefinitions]_vars

\* ------------------------------------------------------------- registry calls
\* Parameters a registered workflow declares: the bare ones, and two with
\* more than a key.
CatalogParameters ==
    {WorkflowParameter(variant, PyStr(key), None, None, None, None, None, None) :
        variant \in Variants, key \in ConfigKeys}
    \cup {WorkflowParameter("integer", PyStr("p"), PyStr("T"), None, PyInt(2), None,
                            PyInt(0), PyInt(4)),
          WorkflowParameter("string", PyStr("q"), None, PyStr("D"), PyStr("a"),
                            PyListOf(<<StringEnumOption("a", "A")>>), None, None)}

CatalogWorkflows ==
    {WorkflowType("wfA")}
    \cup {WorkflowTypeWith("wfA", PyListOf(parameters)) :
            parameters \in UNION {[1..n -> CatalogParameters] : n \in 0..MaxParams}}

\* Lists a WorkflowTypeManager is built from: one workflow, alone or next to
\* a second one of another or of the same name.
CatalogLists ==
    UNION {{<<w>>, <<WorkflowType("wfB"), w>>, <<w, WorkflowType("wfB")>>,
            <<WorkflowType("wfA"), w>>} : w \in CatalogWorkflows}

CatalogCalls ==
    {[op |-> "catalog_round_trip", possible_workflows |-> pw, outcome |-> NotRun] :
        pw \in CatalogLists}

WorkflowTypes ==
    {WorkflowTypeOf(name, description, parameters) :
        name \in WorkflowNames, description \in {"first", "second"},
        parameters \in {None, PyListOf(<<>>),
                        PyListOf(<<WorkflowParameter("boolean", PyStr("p"), None, None,
                                                     None, None, None, None)>>)}}

WorkflowTypeEqCalls ==
    {[op |-> "WorkflowType.__eq__", self |-> a, other |-> b, outcome |-> NotRun] :
        a \in WorkflowTypes, b \in WorkflowTypes}

\* Entries of the workflow_parameters list of a configuration file.
ParameterConfig(parameter_type, json_config) ==
    With(json_config, "parameter_type", PyStr(parameter_type))

ParameterConfigs ==
    {ParameterConfig("integer", [key_name |-> PyStr("p"), minimum |-> PyInt(1)]),
     ParameterConfig("string", [key_name |-> PyStr("q"),
         enum_options |-> PyListOf(<<[key_name |-> PyStr("a"), display_name |-> PyStr("A")]>>)]),
     ParameterConfig("datetime", [key_name |-> PyStr("p"), default |-> PyStr(IsoString)]),
     ParameterConfig("boolean", [key_name |-> PyStr("q")]),
     ParameterConfig("integer", [key_name |-> PyStr("p"), minimum |-> PyFloat(3)]),
     ParameterConfig("string", [key_name |-> PyStr("q"), enum_options |-> PyStr("s")]),
     ParameterConfig("string", [key_name |-> PyStr("q"),
         enum_options |-> PyListOf(<<[key_name |-> PyStr("a")]>>)]),
     ParameterConfig("string", [key_name |-> PyStr("q"),
         enum_options |-> PyListOf(<<[display_name |-> PyStr("A")]>>)]),
     ParameterConfig("datetime", [key_name |-> PyStr("p"), default |-> PyStr("s")]),
     ParameterConfig("duration", [key_name |-> PyStr("p")]),
     ParameterConfig("integer", [key_name |-> PyStr("p"), type_name |-> PyStr("x")]),
     [key_name |-> PyStr("p")]}

FileWorkflow(name, parameter_configs) ==
    [workflow_type_name |-> name,
     workflow_type_description_name |-> "description of " \o name,
     workflow_parameters |-> parameter_configs]

FileWorkflowWithoutParameters(name) ==
    [workflow_type_name |-> name,
     workflow_type_description_name |-> "description of " \o name]

\* Contents of a configuration file: a workflow with parameter entries,
\* alone, or after or before a workflow without the workflow_parameters key.
JsonConfigDicts ==
    UNION {{<<FileWorkflow("wfA", entries)>>,
            <<FileWorkflowWithoutParameters("wfB"), FileWorkflow("wfA", entries)>>,
            <<FileWorkflow("wfA", entries), FileWorkflowWithoutParameters("wfB")>>} :
        entries \in UNION {[1..n -> ParameterConfigs] : n \in 0..MaxParams}}

\* Files of one workflow with one entry more than MaxParams, each entry an
\* Integer named p, a Boolean named q or one of a type no class has.
SkippedEntryFiles ==
    {<<FileWorkflow("wfA", entries)>> :
        entries \in [1..(MaxParams + 1) ->
                        {ParameterConfig("integer", [key_name |-> PyStr("p"), minimum |-> PyInt(1)]),
                         ParameterConfig("boolean", [key_name |-> PyStr("q")]),
                         ParameterConfig("duration", [key_name |-> PyStr("p")])}]}

FileCalls ==
    {[op |-> "from_json_config_file", json_config_dict |-> f, outcome |-> NotRun] :
        f \in JsonConfigDicts \cup SkippedEntryFiles}

\* WorkflowTypeManager(possible_workflows), then to_pb_message, then
\* WorkflowTypeManager.from_pb_message.
Call_catalog_round_trip ==
    /\ pure.op = "catalog_round_trip"
    /\ pure.outcome = NotRun
    /\ LET values == dict_values(pure.possible_workflows)
           rebuilt == WorkflowTypeManager_from_pb_message(
                          WorkflowTypeManager_to_pb_message(values))
       IN pure' = [pure EXCEPT !.outcome =
                      IF rebuilt.raised # "none" THEN rebuilt
                      ELSE Returned([original |-> values,
                                     reconstructed |-> rebuilt.value])]
    /\ UNCHANGED <<sdk_subs, orch_subs, queues, registry, orch_connected, used_ids,
                   handles, sdk_pc, sdk_local, sdk_loop, orch_pc, connections, conn, cb_count,
                   new_jobs, cancelled,
                   error_log, orch_sends, foreign_sends, published, last, worker>>

Call_WorkflowType_eq ==
    /\ pure.op = "WorkflowType.__eq__"
    /\ pure.outcome = NotRun
    /\ pure' = [pure EXCEPT !.outcome =
                   Returned([eq |-> WorkflowType__eq__(pure.self, pure.other),
                             hash_eq |-> WorkflowType__hash__(pure.self)
                                            = WorkflowType__hash__(pure.other)])]
    /\ UNCHANGED <<sdk_subs, orch_subs, queues, registry, orch_connected, used_ids,
                   handles, sdk_pc, sdk_local, sdk_loop, orch_pc, connections, conn, cb_count,
                   new_jobs, cancelled,
                   error_log, orch_sends, foreign_sends, published, last, worker>>

Call_from_json_config_file ==
    /\ pure.op = "from_json_config_file"
    /\ pure.outcome = NotRun
    /\ pure' = [pure EXCEPT !.outcome = from_json_config_file(pure.json_config_dict)]
    /\ UNCHANGED <<sdk_subs, orch_subs, queues, registry, orch_connected, used_ids,
                   handles, sdk_pc, sdk_local, sdk_loop, orch_pc, connections, conn, cb_count,
                   new_jobs, cancelled,
                   error_log, orch_sends, foreign_sends, published, last, worker>>

\* WorkflowParameterPb messages as a publisher other than this SDK can write
\* them: a DateTimeParameterPb whose default is the ISO date, another text,
\* the empty text or unset, a BooleanParameterPb, and a message with no
\* member of the oneof set.
ParameterPbs ==
    {[key_name |-> PbField(PyStr("k"), PyStr("")),
      title |-> PbField(None, PyStr("")),
      description |-> PbField(None, PyStr("")),
      parameter_type |-> [class |-> "DateTimeParameterPb",
                          default |-> PbField(df, PyStr(""))]] :
        df \in {PyStr(IsoString), PyStr("s"), PyStr(""), None}}
    \cup {[key_name |-> PbField(PyStr("q"), PyStr("")),
           title |-> PbField(None, PyStr("")),
           description |-> PbField(None, PyStr("")),
           parameter_type |-> [class |-> "BooleanParameterPb",
                               default |-> PbField(PyBool(TRUE), PyBool(FALSE))]],
          [key_name |-> PbField(PyStr("u"), PyStr("")),
           title |-> PbField(None, PyStr("")),
           description |-> PbField(None, PyStr("")),
           parameter_type |-> UnsetOneof]}

\* AvailableWorkflows messages of one workflow with up to MaxParams such
\* parameters, alone or after a workflow without parameters.
AvailableWorkflowsPbs ==
    UNION {{<<[type_name |-> "wfA", type_description |-> "d", parameters |-> ps]>>,
            <<[type_name |-> "wfB", type_description |-> "d", parameters |-> <<>>],
              [type_name |-> "wfA", type_description |-> "d", parameters |-> ps]>>} :
        ps \in UNION {[1..n -> ParameterPbs] : n \in 0..MaxParams}}

FromPbMessageCalls ==
    {[op |-> "WorkflowTypeManager.from_pb_message", available_workflows_pb |-> pb,
      outcome |-> NotRun] : pb \in AvailableWorkflowsPbs}

Call_WorkflowTypeManager_from_pb_message ==
    /\ pure.op = "WorkflowTypeManager.from_pb_message"
    /\ pure.outcome = NotRun
    /\ pure' = [pure EXCEPT !.outcome =
                   WorkflowTypeManager_from_pb_message(pure.available_workflows_pb)]
    /\ UNCHANGED <<sdk_subs, orch_subs, queues, registry, orch_connected, used_ids,
                   handles, sdk_pc, sdk_local, sdk_loop, orch_pc, connections, conn, cb_count,
                   new_jobs, cancelled,
                   error_log, orch_sends, foreign_sends, published, last, worker>>

\* Calls on workflow types and registries, one call per behaviour.
InitCatalog ==
    InitOthers /\ pure \in CatalogCalls \cup WorkflowTypeEqCalls \cup FileCalls
                               \cup FromPbMessageCalls

NextCatalog ==
    \/ Call_catalog_round_trip
    \/ Call_WorkflowType_eq
    \/ Call_from_json_config_file
    \/ Call_WorkflowTypeManager_from_pb_message

SpecCatalog == InitCatalog /\ [][NextCatalog]_vars

\* ------------------------------------------------------------- handles
\* Number of jobs the client submits when it submits more than one.
MaxSubmits == 2

HandleIds == {UUIDs[i] : i \in 1..MaxSubmits}

HandleQueueNames ==
    QueueNames
    \cup {job_results_queue_name(Job(j, WorkflowType("wfA"))) : j \in HandleIds}
    \cup {job_progress_queue_name(Job(j, WorkflowType("wfA"))) : j \in HandleIds}
    \cup {job_status_queue_name(Job(j, WorkflowType("wfA"))) : j \in HandleIds}

\* A client that submits several jobs, disconnects from them and reconnects,
\* with an orchestrator that listens for submissions and takes them.
InitHandles ==
    /\ sdk_subs = {}
    /\ orch_subs = {}
    /\ queues = [q \in HandleQueueNames |-> <<>>]
    /\ registry = WorkflowTypeManager(<<WorkflowType("wfA"), WorkflowType("wfB")>>)
    /\ orch_connected = {}
    /\ used_ids = {}
    /\ handles = {}
    /\ sdk_pc = 0
    /\ sdk_local = NoLocal
    /\ sdk_loop = LoopIdle
    /\ orch_pc = 0
    /\ connections = NoConnections
    /\ conn = [j \in HandleIds |-> "none"]
    /\ cb_count = [j \in HandleIds |-> NoCount]
    /\ new_jobs = <<>>
    /\ cancelled = <<>>
    /\ error_log = 0
    /\ orch_sends = 0
    /\ foreign_sends = 0
    /\ published = {}
    /\ last = Last("init", NoJobId, "none", NoArgs, <<>>, <<>>, {})
    /\ worker = NoTask
    /\ pure = NoCall

NextHandles ==
    \/ \E w \in WorkflowNames, s \in BOOLEAN :
          submit_job_begin_within(MaxSubmits, SomeEsdl, NoJobConfig, w, None, TRUE, s, FALSE)
    \/ Sdk_next_statement
    \/ \E job \in handles : Call_disconnect_from_submitted_job(job)
    \/ \E job \in handles, s \in BOOLEAN :
          Call_connect_to_submitted_job(job, TRUE, s, FALSE)
    \/ Call_connect_to_job_submissions
    \/ Orch_next_statement
    \/ \E s \in orch_subs : Deliver_submission(s)

SpecHandles == InitHandles /\ [][NextHandles]_vars

\* The client and the orchestrator of SpecHandles with any registry, and a
\* broker that does not leave a message waiting forever in a queue that has
\* a subscription.
InitDelivery ==
    /\ sdk_subs = {}
    /\ orch_subs = {}
    /\ queues = [q \in HandleQueueNames |-> <<>>]
    /\ registry \in {WorkflowTypeManager(pw) : pw \in PossibleWorkflowLists}
    /\ orch_connected = {}
    /\ used_ids = {}
    /\ handles = {}
    /\ sdk_pc = 0
    /\ sdk_local = NoLocal
    /\ sdk_loop = LoopIdle
    /\ orch_pc = 0
    /\ connections = NoConnections
    /\ conn = [j \in HandleIds |-> "none"]
    /\ cb_count = [j \in HandleIds |-> NoCount]
    /\ new_jobs = <<>>
    /\ cancelled = <<>>
    /\ error_log = 0
    /\ orch_sends = 0
    /\ foreign_sends = 0
    /\ published = {}
    /\ last = Last("init", NoJobId, "none", NoArgs, <<>>, <<>>, {})
    /\ worker = NoTask
    /\ pure = NoCall

FairDelivery ==
    \A w \in WorkflowNames :
        WF_vars(\E s \in orch_subs :
                   /\ s.queue = job_submission_queue_name(WorkflowType(w))
                   /\ Deliver_submission(s))

SpecDelivery == InitDelivery /\ [][NextHandles]_vars /\ FairDelivery

\* Several jobs of one workflow type connected at the same time, with all
\* three callbacks, and an orchestrator that sends updates and results for
\* them in any order.
NextIsolation ==
    \/ submit_job_begin_within(MaxSubmits, SomeEsdl, NoJobConfig, "wfA", None, TRUE, TRUE, FALSE)
    \/ Sdk_next_statement
    \/ \E s \in sdk_subs : Deliver_result(s, FALSE)
    \/ \E s \in sdk_subs : Deliver_update(s)
    \/ \E op \in {"send_job_progress_update", "send_job_status_update", "send_job_result"},
          job \in PublishedJobs : Call_send_job(op, job)

SpecIsolation == InitHandles /\ [][NextIsolation]_vars

\* ------------------------------------------------------------- queue name calls
\* Identifiers given to the queue-name functions; one holds the delimiter.
NameJobIds == {"u1", "u2", "a.b"}
NameWorkflowNames == {"wfA", "wfB", "a.b"}

QueueNameCalls ==
    {[op |-> "queue_names", jobs |-> <<Job(j1, WorkflowType(w1)), Job(j2, WorkflowType(w2))>>,
      outcome |-> NotRun] :
        j1 \in NameJobIds, j2 \in NameJobIds,
        w1 \in NameWorkflowNames, w2 \in NameWorkflowNames}

\* The five functions of OmotesQueueNames, called for two jobs.
Call_queue_names ==
    /\ pure.op = "queue_names"
    /\ pure.outcome = NotRun
    /\ pure' = [pure EXCEPT !.outcome =
                   Returned([i \in 1..2 |->
                       [submission |-> job_submission_queue_name(pure.jobs[i].workflow_type),
                        result |-> job_results_queue_name(pure.jobs[i]),
                        progress |-> job_progress_queue_name(pure.jobs[i]),
                        status |-> job_status_queue_name(pure.jobs[i]),
                        cancel |-> job_cancel_queue_name]])]
    /\ UNCHANGED <<sdk_subs, orch_subs, queues, registry, orch_connected, used_ids,
                   handles, sdk_pc, sdk_local, sdk_loop, orch_pc, connections, conn, cb_count,
                   new_jobs, cancelled,
                   error_log, orch_sends, foreign_sends, published, last, worker>>

InitQueueNames == InitOthers /\ pure \in QueueNameCalls

NextQueueNames == Call_queue_names

SpecQueueNames == InitQueueNames /\ [][NextQueueNames]_vars

\* ------------------------------------------------------------- properties
\* The names of a job's three queues, written out.
ResultQueue(id) == "jobs." \o id \o ".result"
ProgressQueue(id) == "jobs." \o id \o ".progress"
StatusQueue(id) == "jobs." \o id \o ".status"

HasSub(subs, queue_name) == \E s \in subs : s.queue = queue_name
HasNoJobSub(subs, id) ==
    /\ ~HasSub(subs, ResultQueue(id))
    /\ ~HasSub(subs, ProgressQueue(id))
    /\ ~HasSub(subs, StatusQueue(id))

\* The step is a run of callback_on_finished for job id.
FinishedRan(id) == cb_count'[id].finished = cb_count[id].finished + 1

\* C1: at the step of submit_job that publishes the JobSubmission of a job,
\* the result subscription, and the progress and status subscriptions the call
\* makes (one for each callback passed), are already registered at the broker
\* and stay registered through the step.
C1_SubscribedBeforePublished ==
    [][\A id \in JobIds :
         (id \notin published /\ id \in published') =>
            LET call == IF sdk_local.job.id = id THEN sdk_local ELSE sdk_local'
                Registered(subs) ==
                    /\ \E s \in subs : s.queue = ResultQueue(id) /\ s.once
                    /\ call.args.callback_on_progress_update
                          => HasSub(subs, ProgressQueue(id))
                    /\ call.args.callback_on_status_update
                          => HasSub(subs, StatusQueue(id))
            IN Registered(sdk_subs) /\ Registered(sdk_subs')]_vars

\* C1 witness: the submission of a job is published and a result and a progress
\* update sent in reply have both reached the client's callbacks.
C1_Witness ==
    \E id \in published :
        /\ sdk_pc = 0
        /\ cb_count[id].finished = 1
        /\ cb_count[id].progress = 1

\* C2: whenever cancel_job has just run for a job it returned normally and
\* published exactly one JobCancel with the job's id to job_cancellations.
C2_CancelPublishesOneJobCancel ==
    last.op = "cancel_job" =>
        /\ last.raised = "none"
        /\ last.sent = <<[queue |-> "job_cancellations",
                          message |-> [type |-> "JobCancel", uuid |-> last.job,
                                       workflow_type |-> ""]]>>

\* C3 as claimed: when submit_job or connect_to_submitted_job has just returned
\* for a job, the job has a subscription on each of its three queues, whatever
\* callbacks were passed.
C3_AlwaysThreeSubscriptions ==
    last.op \in {"submit_job", "connect_to_submitted_job"} =>
        /\ HasSub(sdk_subs, ResultQueue(last.job))
        /\ HasSub(sdk_subs, ProgressQueue(last.job))
        /\ HasSub(sdk_subs, StatusQueue(last.job))

\* The subscriptions bound to the handler object a call made.
OwnSubs(subs, object) == {s \in subs : s.handler.object = object}

\* The step is a statement of disconnect_from_submitted_job, called by the
\* application or from the result callback.
DisconnectStep ==
    \/ last'.op \in {"disconnect_from_submitted_job",
                     "disconnect_from_submitted_job_statement"}
    \/ /\ last'.op \in {"callback_on_finished_wrapped",
                        "callback_on_finished_wrapped_statement"}
       /\ \E i \in 1..Len(last'.trace) : last'.trace[i] = "disconnect_from_submitted_job"

\* C3 amended: no subscription is made on the progress or status queue of a
\* job for a callback that was not passed; and when submit_job or
\* connect_to_submitted_job returns for a job with no disconnect of the job
\* run meanwhile, the handler the call made holds the job's result
\* subscription (unless the result was delivered to it already), a progress
\* subscription exactly when a progress callback was passed, and a status
\* subscription exactly when a status callback was passed.
C3_SubscriptionPerCallback ==
    /\ [](\A s \in sdk_subs :
            /\ s.queue = ProgressQueue(s.handler.job.id)
                  => s.handler.callback_on_progress_update
            /\ s.queue = StatusQueue(s.handler.job.id)
                  => s.handler.callback_on_status_update)
    /\ [][(/\ last'.op \in {"submit_job", "connect_to_submitted_job"}
           /\ conn'[last'.job] = "connected") =>
             LET object == connections'.made
                 own == OwnSubs(sdk_subs', object)
                 delivered == \E i \in 1..Len(connections'.finished) :
                                  connections'.finished[i] = object
             IN /\ \A s \in own : s.handler.job.id = last'.job
                /\ ~delivered =>
                      \E s \in own : s.queue = ResultQueue(last'.job) /\ s.once
                /\ HasSub(own, ProgressQueue(last'.job))
                      <=> last'.args.callback_on_progress_update
                /\ HasSub(own, StatusQueue(last'.job))
                      <=> last'.args.callback_on_status_update]_vars

\* C3 witness: connect_to_submitted_job has just returned for a call that
\* passed a status callback and no progress callback; the job has its result
\* and status subscriptions and no progress subscription.
C3_Witness ==
    /\ last.op = "connect_to_submitted_job"
    /\ ~last.args.callback_on_progress_update
    /\ last.args.callback_on_status_update
    /\ conn[last.job] = "connected"
    /\ HasSub(OwnSubs(sdk_subs, connections.made), ResultQueue(last.job))
    /\ HasSub(OwnSubs(sdk_subs, connections.made), StatusQueue(last.job))
    /\ ~HasSub(sdk_subs, ProgressQueue(last.job))

\* C4: callback_on_finished runs at most once for the handler of one
\* submit_job or connect_to_submitted_job call; the result subscription ends
\* with the message it receives; a progress or status subscription ends only
\* in a statement of a disconnect.
C4_ResultConsumedOnce ==
    /\ [](\A i \in 1..Len(connections.finished), j \in 1..Len(connections.finished) :
            i # j => connections.finished[i] # connections.finished[j])
    /\ [][\A s \in sdk_subs :
            /\ (/\ s.queue = ResultQueue(s.handler.job.id)
                /\ connections'.finished
                      = Append(connections.finished, s.handler.object)) =>
                  s \notin sdk_subs'
            /\ (s.queue # ResultQueue(s.handler.job.id) /\ s \notin sdk_subs') =>
                  DisconnectStep]_vars

\* C4 witness: callback_on_finished has run once for a connected job, a further
\* result has just been published for it and finds no result subscription,
\* while the job's progress subscription is still there.
C4_Witness ==
    \E id \in JobIds :
        /\ cb_count[id].finished = 1
        /\ connections.finished # <<>>
        /\ last.op = "send_job_result"
        /\ last.job = id
        /\ conn[id] = "connected"
        /\ ~HasSub(sdk_subs, ResultQueue(id))
        /\ HasSub(sdk_subs, ProgressQueue(id))
        /\ queues[ResultQueue(id)] = <<>>

\* C5: disconnect_from_submitted_job never raises; when a call of it by the
\* application returns the job has no result, progress or status
\* subscription; once a disconnect has run for a job (called by the
\* application, or from the result callback with no connect of the job run
\* meanwhile) the job has none until the next connect; and a call for a job
\* that has no subscription changes nothing.
C5_DisconnectIdempotent ==
    /\ [](last.op \in {"disconnect_from_submitted_job",
                       "disconnect_from_submitted_job_statement"} =>
             last.raised = "none")
    /\ [](last.op = "disconnect_from_submitted_job" => HasNoJobSub(sdk_subs, last.job))
    /\ [](\A id \in JobIds : conn[id] = "disconnected" => HasNoJobSub(sdk_subs, id))
    /\ [][(/\ last'.op \in {"disconnect_from_submitted_job",
                            "disconnect_from_submitted_job_statement"}
           /\ HasNoJobSub(sdk_subs, last'.job)) =>
                UNCHANGED <<sdk_subs, orch_subs, queues, cb_count, handles,
                            published, used_ids, connections, sdk_loop>>]_vars

\* C5 witness: a disconnect called by the application has just returned for a
\* job whose progress and status callbacks had both run.
C5_Witness ==
    \E id \in JobIds :
        /\ last.op = "disconnect_from_submitted_job"
        /\ last.job = id
        /\ conn[id] = "disconnected"
        /\ cb_count[id].progress = 1
        /\ cb_count[id].status = 1

\* C6: when callback_on_finished returns normally for a handler with
\* auto_disconnect_on_result, the callback is the first statement to run (it
\* still finds the job's progress and status subscriptions) and the
\* disconnect follows it; when that disconnect ends with no connect of the
\* job run meanwhile the job has no subscription; and while the job is
\* disconnected no progress or status callback of it runs.
C6_AutoDisconnectAfterCallback ==
    /\ [](last.op \in {"callback_on_finished_wrapped",
                       "callback_on_finished_wrapped_statement"} =>
             last.trace \in {<<"callback_on_finished">>,
                             <<"callback_on_finished", "disconnect_from_submitted_job">>})
    /\ [][\A id \in JobIds :
            /\ (/\ FinishedRan(id)
                /\ last'.args.auto_disconnect_on_result
                /\ last'.raised = "none") =>
                   /\ last'.op = "callback_on_finished_wrapped_statement"
                   /\ last'.trace = <<"callback_on_finished">>
                   /\ sdk_loop'.callback_handler.auto_disconnect_on_result_handler
                   /\ ("progress" \in last'.seen) <=> HasSub(sdk_subs, ProgressQueue(id))
                   /\ ("status" \in last'.seen) <=> HasSub(sdk_subs, StatusQueue(id))
            /\ (/\ last'.op = "callback_on_finished_wrapped"
                /\ last'.job = id
                /\ last'.args.auto_disconnect_on_result
                /\ last'.raised = "none") =>
                   /\ last'.trace = <<"callback_on_finished",
                                      "disconnect_from_submitted_job">>
                   /\ ~HasSub(sdk_subs', StatusQueue(id))
                   /\ sdk_loop.undisturbed =>
                         /\ HasNoJobSub(sdk_subs', id)
                         /\ conn'[id] = "disconnected"
            /\ (conn[id] = "disconnected" /\ conn'[id] = "disconnected") =>
                   /\ cb_count'[id].progress = cb_count[id].progress
                   /\ cb_count'[id].status = cb_count[id].status]_vars

\* C6 witness: the wrapped result callback of an auto-disconnecting handler
\* has just returned: callback_on_finished found the job's progress
\* subscription, the disconnect ran after it, and the job has no subscription.
C6_Witness ==
    \E id \in JobIds :
        /\ last.op = "callback_on_finished_wrapped"
        /\ last.job = id
        /\ last.args.auto_disconnect_on_result
        /\ last.trace = <<"callback_on_finished", "disconnect_from_submitted_job">>
        /\ "progress" \in last.seen
        /\ conn[id] = "disconnected"
        /\ cb_count[id].finished = 1
        /\ HasNoJobSub(sdk_subs, id)

\* C7: when callback_on_finished raises for a handler with
\* auto_disconnect_on_result, the exception leaves the wrapped callback at
\* once, the disconnect handler is not called and the job's progress and
\* status subscriptions are what they were.
C7_NoDisconnectWhenCallbackRaises ==
    [][\A id \in JobIds :
         (/\ FinishedRan(id)
          /\ last'.args.auto_disconnect_on_result
          /\ last'.raised # "none") =>
             /\ last'.raised = "callback_on_finished"
             /\ last'.op = "callback_on_finished_wrapped"
             /\ last'.trace = <<"callback_on_finished">>
             /\ sdk_loop'.pc = 0
             /\ {s \in sdk_subs' : s.queue \in {ProgressQueue(id), StatusQueue(id)}}
                  = {s \in sdk_subs : s.queue \in {ProgressQueue(id), StatusQueue(id)}}
             /\ conn'[id] = conn[id]]_vars

\* C7 witness: the result callback of an auto-disconnecting job has just
\* raised and the job still has its progress and status subscriptions.
C7_Witness ==
    \E id \in JobIds :
        /\ last.op = "callback_on_finished_wrapped"
        /\ last.job = id
        /\ last.args.auto_disconnect_on_result
        /\ last.raised = "callback_on_finished"
        /\ HasSub(sdk_subs, ProgressQueue(id))
        /\ HasSub(sdk_subs, StatusQueue(id))

\* C8: a disconnect never raises, and while a job is disconnected nothing is
\* waiting on its queues and no callback of the job runs, whatever the
\* orchestrator publishes.
C8_NoCallbackAfterDisconnect ==
    /\ [](last.op \in {"disconnect_from_submitted_job",
                       "disconnect_from_submitted_job_statement"} =>
             last.raised = "none" /\ last.sent = <<>>)
    /\ [](\A id \in JobIds : conn[id] = "disconnected" =>
             /\ queues[ResultQueue(id)] = <<>>
             /\ queues[ProgressQueue(id)] = <<>>
             /\ queues[StatusQueue(id)] = <<>>)
    /\ [][\A id \in JobIds :
            (conn[id] = "disconnected" /\ conn'[id] = "disconnected") =>
                cb_count'[id] = cb_count[id]]_vars

\* C8 witness: a job was submitted and disconnected before any callback ran,
\* and the orchestrator has just published its result.
C8_Witness ==
    \E id \in published :
        /\ conn[id] = "disconnected"
        /\ cb_count[id] = NoCount
        /\ connections.made = 1
        /\ last.op = "send_job_result"
        /\ last.job = id
        /\ orch_sends = 1

\* C9: the delivery of a submission whose workflow type is not the one of the
\* queue it arrived on calls callback_on_new_job not at all, logs exactly one
\* error, removes the message from its queue and puts it on no other queue.
C9_MisroutedSubmissionDropped ==
    [][\A s \in orch_subs :
         (/\ s.method = "callback_on_new_job_wrapped"
          /\ queues[s.queue] # <<>>
          /\ Head(queues[s.queue]).workflow_type
                # s.handler.workflow_type.workflow_type_name
          /\ queues'[s.queue] = Tail(queues[s.queue])) =>
             /\ new_jobs' = new_jobs
             /\ error_log' = error_log + 1
             /\ \A q \in DOMAIN queues : q # s.queue => queues'[q] = queues[q]]_vars

\* C9 witness: a misrouted submission has just been handled, with one error
\* logged and no job handed to callback_on_new_job.
C9_Witness ==
    /\ last.op = "callback_on_new_job_wrapped"
    /\ last.raised = "none"
    /\ error_log = 1
    /\ new_jobs = <<>>
    /\ \A q \in DOMAIN queues : queues[q] = <<>>

\* C10: after connect_to_job_submissions the orchestrator's submission
\* subscriptions are one per workflow type of the registry, each on
\* job_submissions.<name> with a handler expecting the registry's workflow
\* type of that name, and none for a name outside the registry.
C10_OneSubscriptionPerWorkflowType ==
    "submissions" \in orch_connected =>
        LET subs == {s \in orch_subs : s.method = "callback_on_new_job_wrapped"}
            names == {registry[i].workflow_type_name : i \in 1..Len(registry)}
        IN /\ {s.queue : s \in subs} = {"job_submissions." \o name : name \in names}
           /\ Cardinality(subs) = Cardinality(names)
           /\ Cardinality(names) = Len(registry)
           /\ \A s \in subs :
                 /\ \E i \in 1..Len(registry) : s.handler.workflow_type = registry[i]
                 /\ s.queue = "job_submissions."
                                 \o s.handler.workflow_type.workflow_type_name

\* C10 witness: connect_to_job_submissions has returned for a registry of two
\* types, after one iteration of its loop for each.
C10_Witness ==
    /\ "submissions" \in orch_connected
    /\ last.op = "connect_to_job_submissions"
    /\ Len(registry) = 2
    /\ Cardinality(orch_subs) >= 2

\* ------------------------------------------------------------- C11
\* The parameter values a JobSubmission carries: those of its params_dict
\* field, none when the message was built without that field.
ParamsOf(message) ==
    IF "params_dict" \in DOMAIN message THEN message.params_dict ELSE <<>>

\* C11: the JobSubmission that submit_job publishes carries every parameter
\* value of the caller's job_config.
C11_SubmissionCarriesJobConfig ==
    [][last'.op = "submit_job" =>
          /\ Len(last'.sent) = 1
          /\ last'.sent[1].message.type = "JobSubmission"
          /\ \A key \in DOMAIN sdk_local.job_config :
                key \in DOMAIN ParamsOf(last'.sent[1].message)]_vars

\* ------------------------------------------------------------- C12
SendOps == {"send_job_progress_update", "send_job_status_update", "send_job_result"}

KindOfSend(op) ==
    CASE op = "send_job_progress_update" -> "progress"
      [] op = "send_job_status_update" -> "status"
      [] op = "send_job_result" -> "result"

\* The queue the client subscribes to for a job's messages of one kind, the
\* wrapped callback it subscribes, and the message type of that kind.
ClientQueue(kind, id) ==
    CASE kind = "progress" -> ProgressQueue(id)
      [] kind = "status" -> StatusQueue(id)
      [] kind = "result" -> ResultQueue(id)

ClientMethod(kind) ==
    CASE kind = "progress" -> "callback_on_progress_update_wrapped"
      [] kind = "status" -> "callback_on_status_update_wrapped"
      [] kind = "result" -> "callback_on_finished_wrapped"

MessageType(kind) ==
    CASE kind = "progress" -> "JobProgressUpdate"
      [] kind = "status" -> "JobStatusUpdate"
      [] kind = "result" -> "JobResult"

CallbackCount(count, kind) ==
    CASE kind = "progress" -> count.progress
      [] kind = "status" -> count.status
      [] kind = "result" -> count.finished

Kinds == {"progress", "status", "result"}

\* C12: send_job_progress_update, send_job_status_update and send_job_result
\* for job J each publish exactly one message, to J's progress, status and
\* result queue respectively, the queue the client's subscription of that kind
\* for J is on; while the client has that subscription the message joins the
\* queue, every message waiting in a job's queue is of the queue's kind, and
\* its delivery runs J's callback of that kind once and no other callback.
C12_UpdateReachesMatchingCallback ==
    /\ [](last.op \in SendOps =>
            /\ Len(last.sent) = 1
            /\ last.sent[1].queue = ClientQueue(KindOfSend(last.op), last.job)
            /\ last.sent[1].message.type = MessageType(KindOfSend(last.op))
            /\ last.sent[1].message.uuid = last.job)
    /\ [](\A s \in sdk_subs :
            \E kind \in Kinds :
               /\ s.method = ClientMethod(kind)
               /\ s.queue = ClientQueue(kind, s.handler.job.id))
    /\ [](\A id \in JobIds, kind \in Kinds :
            \A i \in 1..Len(queues[ClientQueue(kind, id)]) :
               /\ queues[ClientQueue(kind, id)][i].type = MessageType(kind)
               /\ queues[ClientQueue(kind, id)][i].uuid = id)
    /\ [][orch_sends' = orch_sends + 1 =>
            LET sent == last'.sent[1]
            IN IF HasSub(sdk_subs, sent.queue)
               THEN queues' = [queues EXCEPT ![sent.queue] = Append(@, sent.message)]
               ELSE queues' = queues]_vars
    /\ [][\A id \in JobIds, kind \in Kinds :
            (/\ last'.op \in {ClientMethod(kind), ClientMethod(kind) \o "_statement"}
             /\ last'.job = id
             /\ sdk_loop.pc = 0) =>
               /\ queues[ClientQueue(kind, id)] # <<>>
               /\ CallbackCount(cb_count'[id], kind)
                     = CallbackCount(cb_count[id], kind) + 1
               /\ \A other \in Kinds \ {kind} :
                     CallbackCount(cb_count'[id], other)
                        = CallbackCount(cb_count[id], other)]_vars

\* C12 witness: the status callback of a job has just run for a status update
\* the orchestrator sent, after its progress callback ran for a progress
\* update.
C12_Witness ==
    /\ last.op = "callback_on_status_update_wrapped"
    /\ cb_count[last.job].status = 1
    /\ cb_count[last.job].progress = 1
    /\ orch_sends = 2

\* ------------------------------------------------------------- C13, C14
\* The progress update the wrapper or the task function publishes.
ProgressSent(job_id, progress, message) ==
    [queue |-> task_progress_queue_name,
     message |-> [type |-> "TaskProgressUpdate", job_id |-> job_id,
                  celery_task_id |-> CeleryTaskId, celery_task_type |-> WORKER_TASK_TYPE,
                  progress |-> progress, message |-> message,
                  result_type |-> "", output_esdl |-> "", logs |-> ""]]

\* The progress updates the task function of this execution emitted so far,
\* as published: an emitted 0 is published as 0.0.
BodySent ==
    [i \in 1..worker.emitted |->
        ProgressSent(worker.job_id,
                     IF worker.body.updates[i] = PyInt(0) THEN PyFloat(0)
                     ELSE worker.body.updates[i],
                     "task progress")]

IsResult(sent) == sent.message.type = "TaskResult"

\* C13: an execution that completed normally published, in order, a progress
\* update of 0, the task function's progress updates, a progress update of
\* 1.0, and one SUCCEEDED result carrying the output; a result is never
\* followed by another message.
C13_NormalExecutionPublishes ==
    /\ worker.pc = "done" =>
          /\ Len(worker.sent) = Len(worker.body.updates) + 3
          /\ worker.sent[1] = ProgressSent(worker.job_id, PyFloat(0),
                                           "Job calculation started")
          /\ SubSeq(worker.sent, 2, Len(worker.sent) - 2) = BodySent
          /\ worker.sent[Len(worker.sent) - 1]
                = ProgressSent(worker.job_id, PyFloat(2), "Calculation finished.")
          /\ LET result == worker.sent[Len(worker.sent)]
             IN /\ result.queue = task_result_queue_name
                /\ result.message.type = "TaskResult"
                /\ result.message.job_id = worker.job_id
                /\ result.message.result_type = "SUCCEEDED"
                /\ result.message.output_esdl = worker.body.output_esdl
    /\ worker.pc # "idle" =>
          \A i \in 1..Len(worker.sent) : IsResult(worker.sent[i]) => i = Len(worker.sent)

\* C13 witness: an execution completed normally whose task function emitted
\* two progress updates.
C13_Witness ==
    /\ worker.pc = "done"
    /\ worker.emitted = 2
    /\ Len(worker.sent) = 5
    /\ IsResult(worker.sent[5])

\* C14 as claimed: an execution whose task function raised published no
\* progress update of 1.0 (100%) and no result of any type.
C14_NoFullProgressUpdate ==
    (worker.pc \in {"raised", "failed"} /\ worker.body.raises) =>
       \A i \in 1..Len(worker.sent) :
          /\ ~IsResult(worker.sent[i])
          /\ ~eq(worker.sent[i].message.progress, PyFloat(2))

\* C14 amended: an execution whose task function raised published its
\* progress update of 0 and the progress updates the task function itself
\* emitted before it raised (one of 1.0 among them when the task function
\* emitted it) and nothing else: the wrapper published neither its closing
\* progress update of 1.0, "Calculation finished.", nor a result of any type;
\* the failure is one record in the log.
C14_RaisingExecutionPublishesNoResult ==
    (worker.pc \in {"raised", "failed"} /\ worker.body.raises
                                        /\ worker.emitted = Len(worker.body.updates)) =>
       /\ worker.sent = <<ProgressSent(worker.job_id, PyFloat(0),
                                       "Job calculation started")>> \o BodySent
       /\ \A i \in 1..Len(worker.sent) :
             /\ ~IsResult(worker.sent[i])
             /\ worker.sent[i].message.message # "Calculation finished."
       /\ worker.pc = "failed" => Len(worker.log) = 1

\* C14 witness: on_failure has run for an execution whose task function
\* emitted a progress update of 1.0 and then raised; the update was published
\* with the task function's message and nothing follows it.
C14_Witness ==
    /\ worker.pc = "failed"
    /\ worker.body.raises
    /\ worker.emitted = 1
    /\ worker.body.updates = <<PyFloat(2)>>
    /\ worker.sent[2] = ProgressSent(worker.job_id, PyFloat(2), "task progress")
    /\ Len(worker.sent) = 2
    /\ Len(worker.log) = 1

\* ------------------------------------------------------------- C15, C16
\* C15: parse_workflow_config_parameter ends in exactly one of these ways: key
\* present with a value of the expected type's kind, the converted value; key
\* present with a value of another kind, the default if one was supplied, else
\* WrongFieldTypeException; key absent, the default if one was supplied, else
\* MissingFieldException.
C15_ParsePrecedence ==
    (pure.op = "parse_workflow_config_parameter" /\ pure.outcome # NotRun) =>
       LET present == pure.field_key \in DOMAIN pure.workflow_config
           value == pure.workflow_config[pure.field_key]
           compatible ==
               CASE pure.expected_type = "string" -> value.kind = "str"
                 [] pure.expected_type = "boolean" -> value.kind = "bool"
                 [] pure.expected_type = "integer" -> value.kind \in {"int", "bool", "float"}
                 [] pure.expected_type = "float" -> value.kind = "float"
                 [] pure.expected_type = "datetime" -> value.kind = "float"
           supplied == pure.default_value # None
       IN IF ~present
          THEN IF supplied THEN pure.outcome = Returned(pure.default_value)
               ELSE pure.outcome.raised = "MissingFieldException"
          ELSE IF ~compatible
          THEN IF supplied THEN pure.outcome = Returned(pure.default_value)
               ELSE pure.outcome.raised = "WrongFieldTypeException"
          ELSE /\ pure.outcome.raised = "none"
               /\ pure.outcome.value.kind =
                     (CASE pure.expected_type = "string" -> "str"
                        [] pure.expected_type = "boolean" -> "bool"
                        [] pure.expected_type = "integer" ->
                              IF value.kind = "bool" THEN "bool" ELSE "int"
                        [] pure.expected_type = "float" -> "float"
                        [] pure.expected_type = "datetime" -> "datetime")

\* C16: convert_params_dict_to_struct raises MissingFieldException when a
\* declared parameter has no value in params_dict, WrongFieldTypeException
\* when a supplied value is of the wrong kind for its parameter, and no other
\* error; it returns when neither is the case.
C16_ConvertRaisesOnlyFieldExceptions ==
    (/\ pure.op = "convert_params_dict_to_struct"
     /\ pure.outcome # NotRun
     /\ pure.workflow.workflow_parameters # None) =>
       LET parameters == pure.workflow.workflow_parameters.items
           missing == \E i \in 1..Len(parameters) :
                         \/ parameters[i].key_name \notin DOMAIN pure.params_dict
                         \/ pure.params_dict[parameters[i].key_name] = None
           wrong == \E i \in 1..Len(parameters) :
                       /\ parameters[i].key_name \in DOMAIN pure.params_dict
                       /\ pure.params_dict[parameters[i].key_name] # None
                       /\ pure.params_dict[parameters[i].key_name].kind \notin
                             (CASE parameters[i].class = "string" -> {"str"}
                                [] parameters[i].class = "boolean" -> {"bool"}
                                [] parameters[i].class = "integer" -> {"int", "bool"}
                                [] parameters[i].class = "float" -> {"float"}
                                [] parameters[i].class = "datetime" -> {"datetime"})
       IN /\ pure.outcome.raised \in
                {"none", "MissingFieldException", "WrongFieldTypeException"}
          /\ (missing /\ ~wrong) => pure.outcome.raised = "MissingFieldException"
          /\ (wrong /\ ~missing) => pure.outcome.raised = "WrongFieldTypeException"
          /\ (missing \/ wrong) <=> pure.outcome.raised # "none"

\* ------------------------------------------------------------- C17
\* The fields from_json_config checks, and the kinds of value each accepts
\* (isinstance: a bool is an int).
AcceptedKinds(variant, key) ==
    CASE variant = "string" /\ key = "default" -> {"str"}
      [] variant = "string" /\ key = "enum_options" -> {"list"}
      [] variant = "boolean" /\ key = "default" -> {"bool"}
      [] variant = "integer" /\ key \in {"default", "minimum", "maximum"} -> {"int", "bool"}
      [] variant = "float" /\ key \in {"default", "minimum", "maximum"} ->
            {"float", "int", "bool"}
      [] variant = "datetime" /\ key = "default" -> {"str"}
      [] OTHER -> {"str", "bool", "int", "float", "list"}

Mismatch(variant, json_config) ==
    \E key \in DOMAIN json_config \cap {"default", "enum_options", "minimum", "maximum"} :
       json_config[key].kind \notin AcceptedKinds(variant, key)

\* C17 as stated: from_json_config fails with WrongFieldTypeException when a
\* supplied field does not match the type the variant expects for it.
C17_MismatchRaisesWrongFieldType ==
    (pure.op = "from_json_config" /\ pure.outcome # NotRun
        /\ Mismatch(pure.variant, pure.json_config)) =>
       pure.outcome.raised = "WrongFieldTypeException"

\* C17 amended: from_json_config fails with TypeError when a supplied default,
\* enum_options, minimum or maximum is not an instance of the type the variant
\* checks that field for; it never raises WrongFieldTypeException.
C17_MismatchRaisesTypeError ==
    (pure.op = "from_json_config" /\ pure.outcome # NotRun) =>
       /\ Mismatch(pure.variant, pure.json_config) => pure.outcome.raised = "TypeError"
       /\ pure.outcome.raised # "WrongFieldTypeException"

\* C17 witness: IntegerParameter.from_json_config was given a float minimum
\* (and nothing else wrong) and raised TypeError.
C17_Witness ==
    /\ pure.op = "from_json_config"
    /\ pure.variant = "integer"
    /\ DOMAIN pure.json_config = {"key_name", "minimum"}
    /\ pure.json_config["minimum"] = PyFloat(3)
    /\ pure.outcome.raised = "TypeError"

\* ------------------------------------------------------------- C18
\* C18: for a valid fragment, the instance from_json_config makes and the one
\* rebuilt from its wire message compare equal.
C18_RoundTripEqual ==
    (pure.op = "round_trip" /\ pure.outcome # NotRun) =>
       __eq__(pure.outcome.value.original, pure.outcome.value.reconstructed)

\* ------------------------------------------------------------- C19
\* C19: two instances of the same variant with the same key_name compare
\* equal and hash equal, whatever their title and description.
C19_TitleDescriptionNotCompared ==
    (pure.op = "__eq__" /\ pure.outcome # NotRun
        /\ pure.self.class = pure.other.class
        /\ pure.self.key_name = pure.other.key_name) =>
       /\ pure.outcome.value.eq
       /\ pure.outcome.value.hash_eq

\* ------------------------------------------------------------- C20
\* C20: across to_pb_message and from_pb_message an Integer or Float
\* parameter's minimum and maximum keep their state: absent stays absent
\* (None), 0 stays 0, any other value stays that value.
C20_BoundsKeepThreeStates ==
    (pure.op = "round_trip" /\ pure.outcome # NotRun
        /\ pure.variant \in {"integer", "float"}) =>
       \A bound \in {"minimum", "maximum"} :
          LET before == pure.outcome.value.original[bound]
              after == pure.outcome.value.reconstructed[bound]
          IN IF before = None THEN after = None
             ELSE /\ after # None
                  /\ after.kind = (IF pure.variant = "integer" THEN "int" ELSE "float")
                  /\ float(after) = float(before)

\* C20 witness: an Integer parameter with minimum 0 and no maximum went
\* through the wire message and came back with minimum 0 and no maximum.
C20_Witness ==
    /\ pure.op = "round_trip"
    /\ pure.outcome # NotRun
    /\ pure.variant = "integer"
    /\ pure.outcome.value.original.minimum = PyInt(0)
    /\ pure.outcome.value.original.maximum = None
    /\ pure.outcome.value.reconstructed.minimum = PyInt(0)
    /\ pure.outcome.value.reconstructed.maximum = None

\* ------------------------------------------------------------- C21
\* The key names of a workflow's parameters, in order; none for a workflow
\* without a parameter list.
KeyNames(workflow) ==
    IF workflow.workflow_parameters = None THEN <<>>
    ELSE [i \in 1..Len(workflow.workflow_parameters.items) |->
             workflow.workflow_parameters.items[i].key_name]

NamesOf(values) == {values[i].workflow_type_name : i \in 1..Len(values)}

\* C21: a registry sent through to_pb_message and from_pb_message has the
\* same number of workflows with the same names and, for each workflow, the
\* same parameter key names in the same order.
C21_CatalogRoundTrip ==
    (pure.op = "catalog_round_trip" /\ pure.outcome # NotRun) =>
       /\ pure.outcome.raised = "none"
       /\ LET original == pure.outcome.value.original
              reconstructed == pure.outcome.value.reconstructed
          IN /\ Len(reconstructed) = Len(original)
             /\ Cardinality(NamesOf(reconstructed)) = Len(reconstructed)
             /\ NamesOf(reconstructed) = NamesOf(original)
             /\ \A i \in 1..Len(original) : \A j \in 1..Len(reconstructed) :
                   original[i].workflow_type_name = reconstructed[j].workflow_type_name
                      => KeyNames(reconstructed[j]) = KeyNames(original[i])

\* C21 witness: a registry of a workflow with parameters p then q and a
\* workflow without parameters came back with both.
C21_Witness ==
    /\ pure.op = "catalog_round_trip"
    /\ pure.outcome # NotRun
    /\ pure.outcome.raised = "none"
    /\ Len(pure.outcome.value.original) = 2
    /\ \E i \in 1..2 :
          /\ KeyNames(pure.outcome.value.original[i]) = <<PyStr("p"), PyStr("q")>>
          /\ KeyNames(pure.outcome.value.reconstructed[i]) = <<PyStr("p"), PyStr("q")>>
    /\ \E i \in 1..2 :
          /\ pure.outcome.value.original[i].workflow_parameters = None
          /\ KeyNames(pure.outcome.value.reconstructed[i]) = <<>>

\* ------------------------------------------------------------- C22
\* C22: two WorkflowType values compare equal exactly when their names are
\* the same, and values of the same name hash the same, whatever their
\* descriptions and parameter lists.
C22_WorkflowTypeEqualByName ==
    (pure.op = "WorkflowType.__eq__" /\ pure.outcome # NotRun) =>
       /\ pure.outcome.value.eq
             <=> pure.self.workflow_type_name = pure.other.workflow_type_name
       /\ pure.self.workflow_type_name = pure.other.workflow_type_name
             => pure.outcome.value.hash_eq

\* C22 witness: two values of one name with different descriptions and
\* different parameter lists were compared and found equal, with equal hashes.
C22_Witness ==
    /\ pure.op = "WorkflowType.__eq__"
    /\ pure.outcome # NotRun
    /\ pure.self.workflow_type_name = pure.other.workflow_type_name
    /\ pure.self.workflow_type_description_name # pure.other.workflow_type_description_name
    /\ pure.self.workflow_parameters # pure.other.workflow_parameters
    /\ pure.outcome.value.eq
    /\ pure.outcome.value.hash_eq

\* ------------------------------------------------------------- C23
\* C23: IntegerParameter.from_pb_value on a number never fails: an integral
\* value is returned with the same value and without a warning; any other is
\* returned as the nearest integer, the even one of two equally near, with
\* exactly one warning.
C23_IntegerFromPbValueRounds ==
    (pure.op = "from_pb_value" /\ pure.outcome # NotRun /\ pure.variant = "integer"
        /\ pure.value.kind \in {"int", "float"}) =>
       /\ pure.outcome.raised = "none"
       /\ IF pure.value.kind = "int"
          THEN pure.outcome.value = pure.value /\ pure.warnings = 0
          ELSE IF pure.value.s \in {"", "2**53"} /\ pure.value.n % 2 = 0
          THEN /\ pure.outcome.value = PyValue("int", pure.value.n \div 2, pure.value.s)
               /\ pure.warnings = 0
          ELSE /\ pure.outcome.value.kind = "int"
               /\ 2 * pure.outcome.value.n - pure.value.n \in {-1, 1}
               /\ pure.outcome.value.n % 2 = 0
               /\ pure.warnings = 1

\* ------------------------------------------------------------- C24
\* The kinds of wire value that are of a variant's kind.
KindsOf(variant) ==
    CASE variant = "string" -> {"str"}
      [] variant = "boolean" -> {"bool"}
      [] variant = "integer" -> {"int", "float"}
      [] variant = "float" -> {"float"}
      [] variant = "datetime" -> {"float"}

\* C24: from_pb_value of a variant raises WrongFieldTypeException for every
\* value that is not of the variant's kind.
C24_WrongKindRejected ==
    (pure.op = "from_pb_value" /\ pure.outcome # NotRun
        /\ pure.value.kind \notin KindsOf(pure.variant)) =>
       pure.outcome.raised = "WrongFieldTypeException"

\* ------------------------------------------------------------- C26
\* The queue names of the specification's section on queue names, written
\* out for each identifier.
ExpectedSubmission ==
    [w \in NameWorkflowNames |->
        CASE w = "wfA" -> "job_submissions.wfA"
          [] w = "wfB" -> "job_submissions.wfB"
          [] w = "a.b" -> "job_submissions.a.b"]

ExpectedJobQueues ==
    [j \in NameJobIds |->
        CASE j = "u1" -> [result |-> "jobs.u1.result", progress |-> "jobs.u1.progress",
                          status |-> "jobs.u1.status"]
          [] j = "u2" -> [result |-> "jobs.u2.result", progress |-> "jobs.u2.progress",
                          status |-> "jobs.u2.status"]
          [] j = "a.b" -> [result |-> "jobs.a.b.result", progress |-> "jobs.a.b.progress",
                           status |-> "jobs.a.b.status"]]

JobQueues(names) == {names.result, names.progress, names.status}

\* C26: the queue-name functions return job_submissions.<name>,
\* jobs.<id>.result, jobs.<id>.progress, jobs.<id>.status and
\* job_cancellations; the three queues of a job differ, the queues of jobs
\* with different ids differ, and so do the submission queues of workflow
\* types with different names.
C26_QueueNameFormats ==
    (pure.op = "queue_names" /\ pure.outcome # NotRun) =>
       LET names == pure.outcome.value
       IN /\ \A i \in 1..2 :
                /\ names[i].submission
                      = ExpectedSubmission[pure.jobs[i].workflow_type.workflow_type_name]
                /\ names[i].result = ExpectedJobQueues[pure.jobs[i].id].result
                /\ names[i].progress = ExpectedJobQueues[pure.jobs[i].id].progress
                /\ names[i].status = ExpectedJobQueues[pure.jobs[i].id].status
                /\ names[i].cancel = "job_cancellations"
                /\ Cardinality(JobQueues(names[i])) = 3
          /\ pure.jobs[1].id # pure.jobs[2].id
                => JobQueues(names[1]) \cap JobQueues(names[2]) = {}
          /\ pure.jobs[1].workflow_type.workflow_type_name
                # pure.jobs[2].workflow_type.workflow_type_name
                => names[1].submission # names[2].submission

\* C26 witness: the names were produced for two jobs with different ids and
\* differently named workflow types, one id holding the delimiter.
C26_Witness ==
    /\ pure.op = "queue_names"
    /\ pure.outcome # NotRun
    /\ pure.jobs[1].id = "a.b"
    /\ pure.jobs[2].id = "u1"
    /\ pure.jobs[1].workflow_type.workflow_type_name = "wfA"
    /\ pure.jobs[2].workflow_type.workflow_type_name = "wfB"
    /\ pure.outcome.value[1].status = "jobs.a.b.status"
    /\ pure.outcome.value[2].submission = "job_submissions.wfB"

\* ------------------------------------------------------------- C27
\* C27: once the orchestrator is subscribed to job_cancellations, a message
\* published there is queued, and the delivery of a queued message calls
\* callback_on_job_cancel exactly once, with that message, whatever job it
\* names; callback_on_job_cancel is called on no other step.
C27_EveryCancellationForwarded ==
    /\ [][\A m \in ForeignMessages :
            (/\ m.queue = job_cancel_queue_name
             /\ "cancellations" \in orch_connected
             /\ last'.op = "foreign_publish"
             /\ last'.sent = <<m>>) =>
                queues'[job_cancel_queue_name]
                   = Append(queues[job_cancel_queue_name], m.message)]_vars
    /\ [][(/\ queues[job_cancel_queue_name] # <<>>
           /\ queues'[job_cancel_queue_name] = Tail(queues[job_cancel_queue_name])) =>
              cancelled' = Append(cancelled, Head(queues[job_cancel_queue_name]))]_vars
    /\ [][cancelled' # cancelled =>
             /\ queues[job_cancel_queue_name] # <<>>
             /\ queues'[job_cancel_queue_name] = Tail(queues[job_cancel_queue_name])]_vars

\* C27 witness: the cancellation of a job the orchestrator was handed before
\* has been given to callback_on_job_cancel, once.
C27_Witness ==
    /\ last.op = "callback_on_job_cancelled_wrapped"
    /\ cancelled = <<JobCancel(UUIDs[1])>>
    /\ \E i \in 1..Len(new_jobs) : new_jobs[i].job.id = UUIDs[1]
    /\ queues[job_cancel_queue_name] = <<>>

\* ------------------------------------------------------------- C28
SubmissionAndCancelQueues ==
    {job_submission_queue_name(WorkflowType(w)) : w \in WorkflowNames}
    \cup {job_cancel_queue_name}

\* C28: no statement of a call of connect_to_submitted_job publishes a
\* message, and each leaves what every submission queue and the cancellation
\* queue hold as it was.
C28_ReconnectPublishesNothing ==
    [][last'.op \in {"connect_to_submitted_job",
                     "connect_to_submitted_job_statement"} =>
          /\ last'.sent = <<>>
          /\ \A q \in SubmissionAndCancelQueues : queues'[q] = queues[q]
          /\ published' = published]_vars

\* C28 witness: the client has reconnected to a job it had submitted and
\* disconnected from, and is subscribed to it again, while the job's
\* submission is still the only message on its submission queue.
C28_Witness ==
    /\ last.op = "connect_to_submitted_job"
    /\ \E job \in handles :
          /\ job.id = last.job
          /\ job.id \in published
          /\ "result" \in SubscribedKinds(sdk_subs, job)
          /\ Len(queues[job_submission_queue_name(job.workflow_type)]) = 1
          /\ queues[job_submission_queue_name(job.workflow_type)][1].uuid = job.id

\* ------------------------------------------------------------- C29
\* C29: a call of cancel_job leaves the client's subscriptions as they were.
C29_CancelKeepsSubscriptions ==
    [][last'.op = "cancel_job" => sdk_subs' = sdk_subs]_vars

\* C29 witness: cancel_job has been called for a job the client is
\* subscribed to on all three queues, and the three subscriptions are there.
C29_Witness ==
    /\ last.op = "cancel_job"
    /\ \E job \in handles :
          /\ job.id = last.job
          /\ SubscribedKinds(sdk_subs, job) = {"result", "progress", "status"}

\* ------------------------------------------------------------- C30
\* C30: the return of submit_job adds one handle, whose id no earlier handle
\* has; the call publishes exactly one message, a JobSubmission with the
\* handle's id and the workflow type's name, on the submission queue of that
\* workflow type, where it joins the queue when the queue exists; the
\* statements of the call before its last publish nothing.
C30_SubmitReturnsFreshHandle ==
    /\ [][last'.op = "submit_job" =>
             \E job \in handles' \ handles :
                /\ handles' = handles \cup {job}
                /\ \A earlier \in handles : earlier.id # job.id
                /\ Len(last'.sent) = 1
                /\ last'.sent[1].queue
                      = "job_submissions." \o job.workflow_type.workflow_type_name
                /\ last'.sent[1].message.type = "JobSubmission"
                /\ last'.sent[1].message.uuid = job.id
                /\ last'.sent[1].message.workflow_type = job.workflow_type.workflow_type_name
                /\ queues' = send_message_to(queues, last'.sent[1].queue,
                                             last'.sent[1].message)]_vars
    /\ [][last'.op = "submit_job_statement" =>
             /\ queues' = queues
             /\ handles' = handles
             /\ last'.sent = <<>>]_vars

\* C30 witness: a second job has been submitted for the same workflow type
\* as the first; the client holds two handles with different ids and the
\* second submission is the newest message on the submission queue.
C30_Witness ==
    /\ last.op = "submit_job"
    /\ Cardinality(handles) = 2
    /\ Cardinality({job.id : job \in handles}) = 2
    /\ Cardinality({job.workflow_type : job \in handles}) = 1
    /\ \E job \in handles :
          /\ job.id = last.job
          /\ Len(queues[job_submission_queue_name(job.workflow_type)]) >= 1
          /\ queues[job_submission_queue_name(job.workflow_type)][
                 Len(queues[job_submission_queue_name(job.workflow_type)])].uuid = job.id

\* ------------------------------------------------------------- C25
\* What is wrong with an entry of a configuration file: the exception and the
\* field its message names; <<"none", "">> for an entry with nothing wrong.
DefectOf(entry) ==
    IF "parameter_type" \notin DOMAIN entry THEN <<"KeyError", "">>
    ELSE LET type == entry["parameter_type"].s
         IN IF type = "integer" /\ "minimum" \in DOMAIN entry
                  /\ entry["minimum"].kind \notin {"int", "bool"}
            THEN <<"TypeError", "minimum">>
            ELSE IF type = "string" /\ "enum_options" \in DOMAIN entry
                       /\ entry["enum_options"].kind # "list"
            THEN <<"TypeError", "enum_options">>
            ELSE IF type = "string" /\ "enum_options" \in DOMAIN entry
                       /\ \E k \in 1..Len(entry["enum_options"].items) :
                             "key_name" \notin DOMAIN entry["enum_options"].items[k]
            THEN <<"TypeError", "key_name">>
            ELSE IF type = "string" /\ "enum_options" \in DOMAIN entry
                       /\ \E k \in 1..Len(entry["enum_options"].items) :
                             "display_name" \notin DOMAIN entry["enum_options"].items[k]
            THEN <<"TypeError", "display_name">>
            ELSE IF type = "datetime" /\ "default" \in DOMAIN entry
                       /\ entry["default"].kind = "str"
                       /\ entry["default"].s # IsoString
            THEN <<"ValueError", "">>
            ELSE <<"none", "">>

EntriesOf(file_workflow) ==
    IF "workflow_parameters" \in DOMAIN file_workflow
    THEN file_workflow["workflow_parameters"] ELSE <<>>

\* The places (workflow, entry) of a file, and their order in the file.
Places(file) ==
    UNION {{<<i, j>> : j \in 1..Len(EntriesOf(file[i]))} : i \in 1..Len(file)}

Earlier(a, b) == a[1] < b[1] \/ (a[1] = b[1] /\ a[2] < b[2])

Defective(file) ==
    {place \in Places(file) : DefectOf(EntriesOf(file[place[1]])[place[2]])[1] # "none"}

\* C25: from_json_config_file on a file with an invalid parameter entry
\* raises and returns no registry: TypeError naming the field for a
\* non-integer Integer minimum, an enum_options that is no list or an enum
\* option without key_name or display_name, ValueError for a DateTime default
\* that is no ISO-format string; the first invalid entry of the file decides.
\* A file without an invalid entry gives a registry.
C25_InvalidEntryFailsWholeFile ==
    (pure.op = "from_json_config_file" /\ pure.outcome # NotRun) =>
       LET file == pure.json_config_dict
       IN IF Defective(file) = {}
          THEN pure.outcome.raised = "none"
          ELSE LET first == CHOOSE place \in Defective(file) :
                                \A other \in Defective(file) \ {place} : Earlier(place, other)
                   defect == DefectOf(EntriesOf(file[first[1]])[first[2]])
               IN /\ pure.outcome.raised = defect[1]
                  /\ pure.outcome.names = defect[2]
                  /\ pure.outcome.value = None

\* C25 witness: a file whose first workflow is valid and whose second has a
\* valid entry followed by an enum option without display_name was read, and
\* the call raised the TypeError that names display_name.
C25_Witness ==
    /\ pure.op = "from_json_config_file"
    /\ pure.outcome # NotRun
    /\ Len(pure.json_config_dict) = 2
    /\ Defective(pure.json_config_dict) = {<<2, 2>>}
    /\ pure.outcome.raised = "TypeError"
    /\ pure.outcome.names = "display_name"
    /\ pure.outcome.value = None

\* ------------------------------------------------------------------- C31
\* C31: for every variant and every native value v that to_pb_value accepts,
\* from_pb_value(to_pb_value(v)) returns a value equal to v.  (A datetime is
\* held to the half second, so equality there is equality to the second.)
C31_PbValueRoundTrip ==
    (/\ pure.op = "to_pb_value_from_pb_value"
     /\ pure.outcome # NotRun
     /\ pure.wire.raised = "none")
        => /\ pure.outcome.raised = "none"
           /\ eq(pure.outcome.value, pure.value)

\* ------------------------------------------------------------------- C32
KnownType(entry) == entry["parameter_type"].s \in Variants

\* The type and key name of each entry of a file's workflow, and of each
\* parameter of a registered workflow.
EntryTypesAndKeys(entries) ==
    [k \in 1..Len(entries) |-> <<entries[k]["parameter_type"].s, entries[k]["key_name"]>>]
ParameterTypesAndKeys(parameters) ==
    [k \in 1..Len(parameters) |-> <<parameters[k].class, parameters[k].key_name>>]

HasUnknownType(file) ==
    \E place \in Places(file) :
        LET entry == EntriesOf(file[place[1]])[place[2]]
        IN "parameter_type" \in DOMAIN entry /\ ~KnownType(entry)

\* C32: from_json_config_file on a file with an entry whose parameter_type
\* names none of the five variants, and no invalid entry, raises nothing;
\* every workflow of the file is registered, and its parameters are the
\* entries of a known type, in the order of the file.
C32_UnknownTypeSkipped ==
    (/\ pure.op = "from_json_config_file"
     /\ pure.outcome # NotRun
     /\ Defective(pure.json_config_dict) = {}
     /\ HasUnknownType(pure.json_config_dict)) =>
       LET file == pure.json_config_dict
       IN /\ pure.outcome.raised = "none"
          /\ Len(pure.outcome.value) = Len(file)
          /\ \A i \in 1..Len(file) :
                \E w \in 1..Len(pure.outcome.value) :
                   /\ pure.outcome.value[w].workflow_type_name = file[i]["workflow_type_name"]
                   /\ ParameterTypesAndKeys(pure.outcome.value[w].workflow_parameters.items)
                        = EntryTypesAndKeys(SelectSeq(EntriesOf(file[i]), KnownType))

\* C32 witness: a file whose workflow has an Integer entry, then an entry of
\* an unknown type, then a Boolean entry was read, and the workflow was
\* registered with the Integer and the Boolean parameter in that order.
C32_Witness ==
    /\ pure.op = "from_json_config_file"
    /\ pure.outcome # NotRun
    /\ pure.json_config_dict
         = <<FileWorkflow("wfA",
                <<ParameterConfig("integer", [key_name |-> PyStr("p"), minimum |-> PyInt(1)]),
                  ParameterConfig("duration", [key_name |-> PyStr("p")]),
                  ParameterConfig("boolean", [key_name |-> PyStr("q")])>>)>>
    /\ pure.outcome.raised = "none"
    /\ ParameterTypesAndKeys(pure.outcome.value[1].workflow_parameters.items)
         = <<<<"integer", PyStr("p")>>, <<"boolean", PyStr("q")>>>>

\* ------------------------------------------------------------------- C33
\* C33: with several jobs connected at the same time and the orchestrator's
\* publishes interleaved in any order, every message waiting in a queue a
\* client subscription is on is for that subscription's job and of its kind,
\* and a callback runs only on the delivery of a message that was published
\* for its own job and is of its own kind.
C33_JobsIsolated ==
    /\ [](\A s \in sdk_subs :
            \A i \in 1..Len(queues[s.queue]) :
               /\ queues[s.queue][i].uuid = s.handler.job.id
               /\ \E kind \in Kinds :
                     /\ s.method = ClientMethod(kind)
                     /\ queues[s.queue][i].type = MessageType(kind))
    /\ [][\A id \in HandleIds, kind \in Kinds :
            CallbackCount(cb_count'[id], kind) > CallbackCount(cb_count[id], kind) =>
               \E q \in DOMAIN queues :
                  /\ queues[q] # <<>>
                  /\ queues'[q] # queues[q]
                  /\ Head(queues[q]).uuid = id
                  /\ Head(queues[q]).type = MessageType(kind)]_vars

\* C33 witness: two jobs are connected, a progress update has been published
\* for each and the first job's has just been delivered: its progress
\* callback ran once, no callback of the second job ran, and the second job's
\* update still waits.
C33_Witness ==
    /\ Cardinality(handles) = 2
    /\ last.op = "callback_on_progress_update_wrapped"
    /\ last.job = UUIDs[1]
    /\ cb_count[UUIDs[1]] = [finished |-> 0, progress |-> 1, status |-> 0]
    /\ cb_count[UUIDs[2]] = NoCount
    /\ Len(queues[job_progress_queue_name(Job(UUIDs[2], WorkflowType("wfA")))]) = 1

\* ------------------------------------------------------------------- C34
\* The calls of callback_on_new_job made for the job of one id.
NewJobCalls(id) == {i \in 1..Len(new_jobs) : new_jobs[i].job.id = id}

\* C34: when submit_job has published the submission of a job of workflow
\* type W while the orchestrator's registry holds a type named W and
\* connect_to_job_submissions has returned, then, with a broker that
\* delivers every waiting message, callback_on_new_job is eventually called
\* for it, with a Job that has the id of the handle and the workflow type W;
\* and it is never called more than once for one job.
C34_SubmissionDelivered ==
    /\ \A id \in HandleIds, w \in WorkflowNames :
          (/\ last.op = "submit_job"
           /\ last.job = id
           /\ Job(id, WorkflowType(w)) \in handles
           /\ \E i \in 1..Len(registry) : registry[i].workflow_type_name = w
           /\ "submissions" \in orch_connected)
             ~> (/\ Cardinality(NewJobCalls(id)) = 1
                 /\ \A i \in NewJobCalls(id) :
                       new_jobs[i].job.workflow_type.workflow_type_name = w)
    /\ [](\A id \in HandleIds : Cardinality(NewJobCalls(id)) <= 1)

\* C34 witness: the orchestrator connected, the client then submitted two
\* jobs, and callback_on_new_job has been called for the second one.
C34_Witness ==
    /\ Cardinality(handles) = 2
    /\ last.op = "callback_on_new_job_wrapped"
    /\ last.job = UUIDs[2]
    /\ Cardinality(NewJobCalls(UUIDs[2])) = 1
    /\ error_log = 0

\* ------------------------------------------------------------------- C35
UpdateMethods == {"callback_on_progress_update_wrapped", "callback_on_status_update_wrapped"}

\* C35: for a handler with auto_disconnect_on_result disabled, the delivery
\* of the result runs callback_on_finished and nothing after it, and removes
\* the result subscription it came by and nothing else; a progress or status
\* subscription of such a handler stays through every step but a statement of
\* disconnect_from_submitted_job (called by the application, or by a handler
\* of another connect of the job that has auto_disconnect_on_result enabled);
\* and an update delivered after the result runs its callback.
C35_UpdatesOutliveResult ==
    /\ [][\A id \in JobIds :
            (FinishedRan(id) /\ ~last'.args.auto_disconnect_on_result) =>
               /\ last'.op = "callback_on_finished_wrapped"
               /\ last'.trace = <<"callback_on_finished">>
               /\ sdk_loop'.pc = 0
               /\ \E s \in sdk_subs :
                     /\ s.queue = ResultQueue(id)
                     /\ ~s.handler.auto_disconnect_on_result_handler
                     /\ sdk_subs' = sdk_subs \ {s}]_vars
    /\ [][\A s \in sdk_subs :
            (/\ s.method \in UpdateMethods
             /\ ~s.handler.auto_disconnect_on_result_handler
             /\ s \notin sdk_subs') =>
               /\ DisconnectStep
               /\ last'.op \in {"callback_on_finished_wrapped",
                                 "callback_on_finished_wrapped_statement"}
                     => last'.args.auto_disconnect_on_result]_vars
    /\ [][\A s \in sdk_subs :
            (/\ s.method \in UpdateMethods
             /\ ~s.handler.auto_disconnect_on_result_handler
             /\ last'.op = s.method
             /\ last'.job = s.handler.job.id
             /\ cb_count[last'.job].finished > 0
             /\ cb_count' # cb_count) =>
               IF s.method = "callback_on_progress_update_wrapped"
               THEN cb_count'[last'.job].progress = cb_count[last'.job].progress + 1
               ELSE cb_count'[last'.job].status = cb_count[last'.job].status + 1]_vars

\* C35 witness: a job connected without auto-disconnect got its result, its
\* progress and status subscriptions are still there without the result
\* subscription, and a progress update sent afterwards has just run the
\* progress callback.
C35_Witness ==
    /\ last.op = "callback_on_progress_update_wrapped"
    /\ cb_count[last.job].finished = 1
    /\ cb_count[last.job].progress = 1
    /\ conn[last.job] = "connected"
    /\ ~HasSub(sdk_subs, ResultQueue(last.job))
    /\ \E s \in sdk_subs : /\ s.queue = ProgressQueue(last.job)
                            /\ ~s.handler.auto_disconnect_on_result_handler
    /\ HasSub(sdk_subs, StatusQueue(last.job))

\* ------------------------------------------------------------------- C36
BoundKeys == {"default", "minimum", "maximum"}

\* C36: the Integer variant takes a boolean as an integer: from_pb_value of
\* a boolean returns that boolean, to_pb_value of a boolean returns 1.0 or
\* 0.0, from_json_config never raises a TypeError that names a field holding
\* a boolean, and when default, minimum and maximum are booleans, ints or
\* not given it returns a parameter that holds them unchanged.
C36_IntegerTakesBoolean ==
    /\ (/\ pure.op = "from_pb_value"
        /\ pure.outcome # NotRun
        /\ pure.variant = "integer"
        /\ pure.value.kind = "bool") => pure.outcome = Returned(pure.value)
    /\ (/\ pure.op = "to_pb_value_from_pb_value"
        /\ pure.outcome # NotRun
        /\ pure.variant = "integer"
        /\ pure.value.kind = "bool") => pure.wire = Returned(PyFloat(2 * pure.value.n))
    /\ (/\ pure.op = "from_json_config"
        /\ pure.outcome # NotRun
        /\ pure.variant = "integer") =>
           /\ pure.outcome.raised # "WrongFieldTypeException"
           /\ pure.outcome.raised = "TypeError" =>
                 /\ pure.outcome.names \in BoundKeys \cap DOMAIN pure.json_config
                 /\ pure.json_config[pure.outcome.names].kind # "bool"
           /\ (\A key \in BoundKeys \cap DOMAIN pure.json_config :
                   pure.json_config[key].kind \in {"bool", "int"}) =>
                 /\ pure.outcome.raised = "none"
                 /\ \A key \in BoundKeys :
                       pure.outcome.value[key]
                          = IF key \in DOMAIN pure.json_config
                            THEN pure.json_config[key] ELSE None

\* C36 witness: IntegerParameter.from_json_config was given booleans for
\* default, minimum and maximum and returned a parameter holding them.
C36_Witness ==
    /\ pure.op = "from_json_config"
    /\ pure.outcome # NotRun
    /\ pure.variant = "integer"
    /\ BoundKeys \subseteq DOMAIN pure.json_config
    /\ \A key \in BoundKeys : pure.json_config[key].kind = "bool"
    /\ pure.outcome.raised = "none"
    /\ pure.outcome.value.default = PyBool(TRUE)
    /\ pure.outcome.value.minimum = PyBool(FALSE)

\* ------------------------------------------------------------------- C37
MissingKeyLog(level) ==
    <<[level |-> level, text |-> "field was missing in workflow configuration",
       written |-> TRUE]>>
WrongTypeLog(level, written) ==
    <<[level |-> level, text |-> "field was passed in workflow configuration but as a",
       written |-> written]>>

\* C37: in parse_workflow_config_parameter, when the key is missing, every
\* default but None (0, False and the empty string too) is returned, and None
\* gives MissingFieldException; when the key is present with the value None,
\* the call takes the wrong-type branch: it makes the wrong-type logger call
\* (whose line is written only when the default is a number) and returns the
\* default, or raises WrongFieldTypeException when the default is None, and
\* never makes the missing-key logger call or raises MissingFieldException.
C37_DefaultSuppliedUnlessNone ==
    (pure.op = "parse_workflow_config_parameter" /\ pure.outcome # NotRun) =>
       LET present == pure.field_key \in DOMAIN pure.workflow_config
           supplied == pure.default_value # None
       IN /\ ~present =>
               IF supplied
               THEN /\ pure.outcome = Returned(pure.default_value)
                    /\ pure.log = MissingKeyLog("warning")
               ELSE /\ pure.outcome.raised = "MissingFieldException"
                    /\ pure.log = MissingKeyLog("error")
          /\ (present /\ pure.workflow_config[pure.field_key] = None) =>
               IF supplied
               THEN /\ pure.outcome = Returned(pure.default_value)
                    /\ pure.log = WrongTypeLog("warning",
                                                FormatsAsInteger(pure.default_value))
               ELSE /\ pure.outcome.raised = "WrongFieldTypeException"
                    /\ pure.log = WrongTypeLog("error", TRUE)

\* C37 witness: the key was present with the value None and the default was
\* False; the call returned False and wrote the wrong-type warning.
C37_Witness ==
    /\ pure.op = "parse_workflow_config_parameter"
    /\ pure.outcome # NotRun
    /\ pure.field_key \in DOMAIN pure.workflow_config
    /\ pure.workflow_config[pure.field_key] = None
    /\ pure.default_value = PyBool(FALSE)
    /\ pure.outcome = Returned(PyBool(FALSE))
    /\ pure.log = WrongTypeLog("warning", TRUE)

\* ------------------------------------------------------------------- C38
\* k is the length of a timedelta of n microseconds in milliseconds, rounded
\* to an integer.
NearestMillisecond(k, n) ==
    /\ 2 * (1000 * k - n) <= 1000
    /\ 2 * (n - 1000 * k) <= 1000

\* C38: the JobSubmission submit_job publishes has no timeout_ms when
\* job_timeout is None or of zero length, and for every other job_timeout has
\* as timeout_ms an integer, its length in milliseconds rounded.
C38_ZeroTimeoutSentAsNone ==
    last.op = "submit_job" =>
       LET job_timeout == last.args.job_timeout
           submission == last.sent[1].message
       IN /\ Len(last.sent) = 1
          /\ submission.type = "JobSubmission"
          /\ IF job_timeout = None \/ job_timeout = PyTimedelta(0)
             THEN submission.timeout_ms = None
             ELSE /\ submission.timeout_ms.kind = "int"
                  /\ NearestMillisecond(submission.timeout_ms.n, job_timeout.n)

\* C38 witness: submit_job was called with a job_timeout of zero length
\* while the orchestrator listened, and the submission waiting in the queue
\* has no timeout_ms.
C38_Witness ==
    /\ last.op = "submit_job"
    /\ last.args.job_timeout = PyTimedelta(0)
    /\ \E w \in WorkflowNames :
          /\ queues[job_submission_queue_name(WorkflowType(w))] # <<>>
          /\ Head(queues[job_submission_queue_name(WorkflowType(w))]).uuid = last.job
          /\ Head(queues[job_submission_queue_name(WorkflowType(w))]).timeout_ms = None

\* ------------------------------------------------------------------- C39
\* Every option of the list has both keys.
OptionsComplete(options) ==
    \A k \in 1..Len(options) : {"key_name", "display_name"} \subseteq DOMAIN options[k]

\* C39: StringParameter.from_json_config, given enum_options whose options
\* all hold key_name and display_name, does not look at the type of the
\* options' values: when the parameter's own key_name is text (and its
\* default, if given) it returns a parameter whose enum options hold every
\* key_name and display_name unchanged, text or not; the TypeError of the
\* type check is raised for the parameter's own key_name when that is no
\* text.
C39_EnumOptionValuesUnchecked ==
    (/\ pure.op = "from_json_config"
     /\ pure.outcome # NotRun
     /\ pure.variant = "string"
     /\ DOMAIN pure.json_config \subseteq {"key_name", "title", "description", "default", "enum_options"}
     /\ "enum_options" \in DOMAIN pure.json_config
     /\ pure.json_config["enum_options"].kind = "list"
     /\ pure.json_config["enum_options"].items # <<>>
     /\ OptionsComplete(pure.json_config["enum_options"].items)
     /\ "key_name" \in DOMAIN pure.json_config
     /\ "default" \in DOMAIN pure.json_config => pure.json_config["default"].kind = "str") =>
       LET options == pure.json_config["enum_options"].items
       IN IF pure.json_config["key_name"].kind = "str"
          THEN /\ pure.outcome.raised = "none"
               /\ Len(pure.outcome.value.enum_options.items) = Len(options)
               /\ \A k \in 1..Len(options) :
                     /\ pure.outcome.value.enum_options.items[k].key_name
                           = options[k]["key_name"]
                     /\ pure.outcome.value.enum_options.items[k].display_name
                           = options[k]["display_name"]
          ELSE /\ pure.outcome.raised = "TypeError"
               /\ pure.outcome.names = "key_name"

\* C39 witness: an enum option with the key_name 7 and the display_name True
\* was given, and the parameter returned holds it.
C39_Witness ==
    /\ pure.op = "from_json_config"
    /\ pure.outcome # NotRun
    /\ pure.variant = "string"
    /\ pure.outcome.raised = "none"
    /\ pure.outcome.value.enum_options # None
    /\ Len(pure.outcome.value.enum_options.items) = 1
    /\ pure.outcome.value.enum_options.items[1] = StringEnumOption(PyInt(7), PyBool(TRUE))

====
